---- MODULE Spec2Model ----
(***************************************************************************)
(* Verification model of the knowledge-base tool server                    *)
(* (boleyn/fastgpt-dataset-mcp).                                           *)
(*                                                                         *)
(* Text is modelled at the character level where the code concatenates,    *)
(* splits or matches text: a string is a sequence of one-character         *)
(* strings.  Identifiers the code only compares for equality (dataset ids, *)
(* node ids) are atoms.  Scores are integers.                              *)
(*                                                                         *)
(* The module holds one specification per component; every one of them     *)
(* uses the same variables:                                                *)
(*   config    Config: special_access_users, restricted_datasets           *)
(*   store     the content of the remote document store                    *)
(*   pc        position of the running handler ("idle" between calls)      *)
(*   locals    the running handler's arguments and local variables         *)
(*   requests  the requests sent to the store by the current/last call     *)
(*   result    what the last finished call returned                        *)
(***************************************************************************)
EXTENDS Integers, Sequences, FiniteSets, TLC

VARIABLES config, store, pc, locals, requests, result

vars == <<config, store, pc, locals, requests, result>>

NoValue == [op |-> "none"]

NL == "\n"

(***************************************************************************)
(* Generic sequence helpers                                                *)
(***************************************************************************)
Range(s) == {s[i] : i \in 1..Len(s)}

Min(a, b) == IF a < b THEN a ELSE b

\* s[:n] of Python
Take(s, n) == SubSeq(s, 1, Min(n, Len(s)))

\* s[n:] of Python
Drop(s, n) == SubSeq(s, Min(n, Len(s)) + 1, Len(s))

RECURSIVE Flatten(_)
Flatten(ss) == IF ss = <<>> THEN <<>> ELSE Head(ss) \o Flatten(Tail(ss))

\* every sequence over S of length 0..n
SeqsUpTo(S, n) == UNION {[1..k -> S] : k \in 0..n}

(***************************************************************************)
(* Python string operations, on sequences of one-character strings         *)
(***************************************************************************)
TAB == "\t"

\* the characters str.split() and str.strip() treat as whitespace
IsSpace(c) == c \in {" ", TAB, NL}

RECURSIVE SplitAcc(_, _, _)
SplitAcc(s, cur, out) ==
    IF s = <<>> THEN (IF cur = <<>> THEN out ELSE Append(out, cur))
    ELSE IF IsSpace(Head(s))
         THEN SplitAcc(Tail(s), <<>>, IF cur = <<>> THEN out ELSE Append(out, cur))
         ELSE SplitAcc(Tail(s), Append(cur, Head(s)), out)

\* s.split(): the maximal runs of non-whitespace characters, in order
split(s) == SplitAcc(s, <<>>, <<>>)

RECURSIVE lstrip(_)
lstrip(s) == IF s # <<>> /\ IsSpace(Head(s)) THEN lstrip(Tail(s)) ELSE s

RECURSIVE rstrip(_)
rstrip(s) ==
    IF s # <<>> /\ IsSpace(s[Len(s)]) THEN rstrip(SubSeq(s, 1, Len(s) - 1)) ELSE s

\* s.strip()
strip(s) == rstrip(lstrip(s))

LowerChar(c) == IF c = "K" THEN "k" ELSE IF c = "J" THEN "j" ELSE IF c = "X" THEN "x" ELSE c

\* s.lower()
lower(s) == [i \in 1..Len(s) |-> LowerChar(s[i])]

\* needle in hay
Contains(hay, needle) ==
    \E i \in 1..(Len(hay) - Len(needle) + 1) : SubSeq(hay, i, i + Len(needle) - 1) = needle

\* sep.join(parts)
RECURSIVE join(_, _)
join(sep, parts) ==
    IF parts = <<>> THEN <<>>
    ELSE IF Len(parts) = 1 THEN parts[1]
    ELSE parts[1] \o sep \o join(sep, Tail(parts))


(***************************************************************************)
(* Config: permission configuration (src/src/config.py)                    *)
(***************************************************************************)
\* user ids the callers present; <<"1", NL>> is "1" with a trailing newline
UserIds == {<<"1">>, <<"2">>, <<"1", "2">>, <<"1", NL>>, <<>>}

\* phone numbers that may be configured as special users
PhoneNumbers == {<<"1">>, <<"1", "2">>}

DatasetIds == {"dsA", "dsB", "dsC"}

Configs == [special_access_users : SUBSET PhoneNumbers,
            restricted_datasets : SUBSET DatasetIds]

\* _build_phone_regex: "" for an empty list, else ^(?:p1|p2|...)$
_build_phone_regex(special_access_users) ==
    IF special_access_users = {}
    THEN [empty |-> TRUE, alts |-> {}]
    ELSE [empty |-> FALSE, alts |-> special_access_users]

\* re.match("^(?:p1|...)$", userid): "$" matches at the end of the string and
\* also just before a newline that ends the string
re_match(regex, userid) ==
    \E a \in regex.alts : userid = a \/ userid = a \o <<NL>>

_is_special_user_by_regex(cfg, userid) ==
    LET _phone_regex == _build_phone_regex(cfg.special_access_users)
    IN  IF _phone_regex.empty THEN FALSE ELSE re_match(_phone_regex, userid)

is_special_user(cfg, userid) == _is_special_user_by_regex(cfg, userid)

\* mutant: a restricted dataset is open to everybody when no special user
\* is configured
has_dataset_access_openWhenNoSpecial(cfg, userid, dataset_id) ==
    IF dataset_id \notin cfg.restricted_datasets
    THEN TRUE
    ELSE cfg.special_access_users = {} \/ is_special_user(cfg, userid)

has_dataset_access(cfg, userid, dataset_id) ==
    IF dataset_id \notin cfg.restricted_datasets
    THEN TRUE
    ELSE is_special_user(cfg, userid)

(***************************************************************************)
(* PermissionService (src/src/services/permission_service.py)              *)
(***************************************************************************)
PermissionService_has_dataset_access(cfg, userid, dataset_id) ==
    has_dataset_access(cfg, userid, dataset_id)

RECURSIVE filter_allowed_datasets(_, _, _)
filter_allowed_datasets(cfg, userid, dataset_ids) ==
    IF dataset_ids = <<>> THEN <<>>
    ELSE LET rest == filter_allowed_datasets(cfg, userid, Tail(dataset_ids))
         IN  IF PermissionService_has_dataset_access(cfg, userid, Head(dataset_ids))
             THEN <<Head(dataset_ids)>> \o rest
             ELSE rest

(***************************************************************************)
(* Specification SpecPerm: the permission gate called on any user and      *)
(* dataset under any configuration                                         *)
(***************************************************************************)
MaxIdList == 2

InitPerm ==
    /\ config \in Configs
    /\ store = NoValue
    /\ pc = "idle"
    /\ locals = NoValue
    /\ requests = <<>>
    /\ result = NoValue

HasDatasetAccess ==
    \E userid \in UserIds, dataset_id \in DatasetIds :
        /\ result' = [op |-> "has_dataset_access", userid |-> userid,
                      dataset_id |-> dataset_id,
                      value |-> PermissionService_has_dataset_access(config, userid, dataset_id)]
        /\ UNCHANGED <<config, store, pc, locals, requests>>

FilterAllowedDatasets ==
    \E userid \in UserIds, dataset_ids \in SeqsUpTo(DatasetIds, MaxIdList) :
        /\ result' = [op |-> "filter_allowed_datasets", userid |-> userid,
                      dataset_ids |-> dataset_ids,
                      value |-> filter_allowed_datasets(config, userid, dataset_ids)]
        /\ UNCHANGED <<config, store, pc, locals, requests>>

NextPerm == HasDatasetAccess \/ FilterAllowedDatasets

SpecPerm == InitPerm /\ [][NextPerm]_vars

\* the user matches the privileged-user pattern ^(?:p1|p2|...)$ built from
\* the configured list; no pattern exists when the list is empty
MatchesPrivilegedPattern(userid) ==
    /\ config.special_access_users # {}
    /\ \E p \in config.special_access_users :
          \/ userid = p
          \/ Len(userid) = Len(p) + 1 /\ Take(userid, Len(p)) = p /\ userid[Len(userid)] = NL

\* C1: has_dataset_access(userid, dataset_id) is false exactly when the
\* dataset id is in the restricted set and the user does not match the
\* privileged-user pattern; in particular it is true for every user on a
\* dataset outside the restricted set, also with an empty privileged list.
C1_AccessPolicy ==
    result.op = "has_dataset_access" =>
        /\ result.value = FALSE <=>
              (result.dataset_id \in config.restricted_datasets
               /\ ~MatchesPrivilegedPattern(result.userid))
        /\ result.dataset_id \notin config.restricted_datasets => result.value = TRUE

C1_Witness ==
    /\ result.op = "has_dataset_access"
    /\ config.special_access_users = {<<"1">>}
    /\ result.dataset_id \in config.restricted_datasets
    /\ result.userid = <<"2">>
    /\ result.value = FALSE

(***************************************************************************)
(* TreeService (src/src/services/tree_service.py) and its tools            *)
(*                                                                         *)
(* store.children[p]  the nodes the store lists as the children of p       *)
(* store.search[kw]   the nodes the store returns for filter text kw       *)
(* store.fail         the tree requests the store answers with an error    *)
(***************************************************************************)
None == <<"<None>">>

Node(id, type, name) == [id |-> id, type |-> type, name |-> name]

nDsA == Node("dsA", "dataset", "A")
nDsB == Node("dsB", "dataset", "B")
nDsC == Node("dsC", "dataset", "C")
nF1 == Node("F1", "folder", "one")
nF2 == Node("F2", "folder", "two")
\* the payload of dsA as another response of the store carries it
nDsA2 == Node("dsA", "dataset", "A2")

ParentIds == {"root", "F1", "F2", "F9"}

\* Config.default_parent_id
default_parent_id == "root"

ChildrenShapes ==
    { [p \in ParentIds |-> CASE p = "root" -> <<nDsA, nF1>>
                             [] p = "F1" -> <<nDsC>>
                             [] OTHER -> <<>>],
      [p \in ParentIds |-> CASE p = "root" -> <<nF1, nF2>>
                             [] p = "F1" -> <<nDsA, nF2>>
                             [] p = "F2" -> <<nDsB>>
                             [] OTHER -> <<>>],
      [p \in ParentIds |-> CASE p = "root" -> <<nF1>>
                             [] p = "F1" -> <<nF1, nDsA>>
                             [] OTHER -> <<>>],
      [p \in ParentIds |-> CASE p = "root" -> <<nF2, nDsB>>
                             [] OTHER -> <<>>],
      [p \in ParentIds |-> <<>>] }

Keywords == {<<"k">>, <<"j">>}

SearchResponses == {<<>>, <<nF1, nDsA>>, <<nDsA2, nDsB>>}

TreeRequest(parent_id, search_value, deep) ==
    [api |-> "get_dataset_tree", parentId |-> parent_id,
     searchValue |-> search_value, deep |-> deep]

\* the search values the callers pass: none, one keyword, two keywords
\* separated by a blank, only blanks
SearchValues == {<<>>, <<"k">>, <<"k", " ", "j">>, <<"j", " ", "k">>, <<" ">>}

MaxDeep == 3

\* the depths explore_folder_contents accepts: deep < 1 or deep > 10 is
\* replaced by the default
LowestDeep == 1

HighestDeep == 10

DefaultExploreDeep == 6

\* the depths the callers pass: small ones, one below and one above the
\* accepted range
Depths == (1..MaxDeep) \cup {LowestDeep - 1, HighestDeep + 1}

FailSets == {{}} \cup {{TreeRequest("F1", <<>>, 1)}}
                 \cup {{TreeRequest(default_parent_id, <<"k">>, d) : d \in Depths}}

\* the ids of the nodes the store lists under some parent
ListedIds(children) ==
    UNION {{children[p][i].id : i \in 1..Len(children[p])} : p \in DOMAIN children}

\* a filtered response holds only nodes the store also lists under a parent
TreeStores ==
    {st \in [children : ChildrenShapes,
             search : [Keywords -> SearchResponses],
             fail : FailSets] :
        \A kw \in Keywords : \A i \in 1..Len(st.search[kw]) :
            st.search[kw][i].id \in ListedIds(st.children)}

\* APIClient.get_dataset_tree: raises when the request fails
ApiFails(st, req) == req \in st.fail

\* APIClient.get_dataset_tree: the nodes of the response
get_dataset_tree(st, req) ==
    IF req.searchValue = <<>>
    THEN (IF req.parentId \in DOMAIN st.children THEN st.children[req.parentId] ELSE <<>>)
    ELSE (IF req.searchValue \in DOMAIN st.search THEN st.search[req.searchValue] ELSE <<>>)

NoTree == [tree |-> <<>>, reqs |-> <<>>]

_parse_search_keywords(search_value) ==
    IF search_value = <<>> \/ strip(search_value) = <<>> THEN <<>>
    ELSE LET kws == split(search_value)
         IN  SelectSeq([i \in 1..Len(kws) |-> strip(kws[i])], LAMBDA kw : kw # <<>>)

RECURSIVE _build_tree_recursively(_, _, _, _), BuildLevel(_, _, _, _)

\* mutant: the children of every node are asked for, of a dataset too
RECURSIVE BuildLevel_expandsDatasets(_, _, _, _)
BuildLevel_expandsDatasets(st, nodes, max_depth, current_depth) ==
    IF nodes = <<>> THEN NoTree
    ELSE LET node == Head(nodes)
             sub == IF current_depth < max_depth - 1
                    THEN _build_tree_recursively(st, node.id, max_depth, current_depth + 1)
                    ELSE NoTree
             rest == BuildLevel_expandsDatasets(st, Tail(nodes), max_depth, current_depth)
         IN  [tree |-> <<[node |-> node, depth |-> current_depth, children |-> sub.tree]>>
                       \o rest.tree,
              reqs |-> sub.reqs \o rest.reqs]

\* mutant: the failure of the request for the children of a folder is not
\* caught in the call for that folder and ends the loop over its level
RECURSIVE BuildLevel_failurePropagates(_, _, _, _)
BuildLevel_failurePropagates(st, nodes, max_depth, current_depth) ==
    IF nodes = <<>> THEN NoTree
    ELSE LET node == Head(nodes)
             expands == node.type = "folder" /\ current_depth < max_depth - 1
             req == TreeRequest(node.id, <<>>, 1)
             sub == IF expands
                    THEN _build_tree_recursively(st, node.id, max_depth, current_depth + 1)
                    ELSE NoTree
             rest == BuildLevel_failurePropagates(st, Tail(nodes), max_depth, current_depth)
         IN  IF expands /\ ApiFails(st, req)
             THEN [tree |-> <<>>, reqs |-> <<req>>]
             ELSE [tree |-> <<[node |-> node, depth |-> current_depth,
                               children |-> sub.tree]>> \o rest.tree,
                   reqs |-> sub.reqs \o rest.reqs]

\* the for loop of _build_tree_recursively over the nodes of one level
BuildLevel(st, nodes, max_depth, current_depth) ==
    IF nodes = <<>> THEN NoTree
    ELSE LET node == Head(nodes)
             sub == IF node.type = "folder" /\ current_depth < max_depth - 1
                    THEN _build_tree_recursively(st, node.id, max_depth, current_depth + 1)
                    ELSE NoTree
             rest == BuildLevel(st, Tail(nodes), max_depth, current_depth)
         IN  [tree |-> <<[node |-> node, depth |-> current_depth, children |-> sub.tree]>>
                       \o rest.tree,
              reqs |-> sub.reqs \o rest.reqs]

_build_tree_recursively(st, parent_id, max_depth, current_depth) ==
    IF current_depth >= max_depth THEN NoTree
    ELSE LET req == TreeRequest(parent_id, <<>>, 1)
         IN  IF ApiFails(st, req) THEN [tree |-> <<>>, reqs |-> <<req>>]
             ELSE LET r == BuildLevel(st, get_dataset_tree(st, req), max_depth, current_depth)
                  IN  [tree |-> r.tree, reqs |-> <<req>> \o r.reqs]

\* search_single_keyword: one request; a failure gives an empty list
search_single_keyword(st, parent_id, keyword, max_depth) ==
    LET req == TreeRequest(parent_id, keyword, max_depth)
    IN  IF ApiFails(st, req) THEN <<>>
        ELSE LET nodes == get_dataset_tree(st, req)
             IN  [i \in 1..Len(nodes) |-> [node |-> nodes[i], depth |-> 0, children |-> <<>>]]

\* mutant: a node seen again replaces the payload merged before
RECURSIVE MergeNodes_lastWins(_, _)
MergeNodes_lastWins(node_datas, merged) ==
    IF node_datas = <<>> THEN merged
    ELSE LET nd == Head(node_datas)
         IN  MergeNodes_lastWins(Tail(node_datas),
                IF \E i \in 1..Len(merged) : merged[i].node.id = nd.node.id
                THEN [i \in 1..Len(merged) |->
                        IF merged[i].node.id = nd.node.id THEN nd ELSE merged[i]]
                ELSE Append(merged, nd))

\* the merge loop: the first node_data of each node id, in order
RECURSIVE MergeNodes(_, _)
MergeNodes(node_datas, merged) ==
    IF node_datas = <<>> THEN merged
    ELSE LET nd == Head(node_datas)
         IN  MergeNodes(Tail(node_datas),
                        IF \E i \in 1..Len(merged) : merged[i].node.id = nd.node.id
                        THEN merged ELSE Append(merged, nd))

_build_tree_with_concurrent_search(st, parent_id, keywords, max_depth) ==
    LET results == [i \in 1..Len(keywords) |->
                        search_single_keyword(st, parent_id, keywords[i], max_depth)]
    IN  [tree |-> MergeNodes(Flatten(results), <<>>),
         reqs |-> [i \in 1..Len(keywords) |-> TreeRequest(parent_id, keywords[i], max_depth)]]

\* mutant: the child lists are taken over as they are
RECURSIVE _apply_permission_filter_topLevelOnly(_, _, _)
_apply_permission_filter_topLevelOnly(cfg, tree_structure, userid) ==
    IF tree_structure = <<>> \/ userid = None \/ userid = <<>> THEN tree_structure
    ELSE LET node_data == Head(tree_structure)
             node == node_data.node
             rest == _apply_permission_filter_topLevelOnly(cfg, Tail(tree_structure), userid)
         IN  IF /\ node.type = "dataset"
                /\ node.id \in cfg.restricted_datasets
                /\ ~is_special_user(cfg, userid)
             THEN rest
             ELSE <<node_data>> \o rest

RECURSIVE _apply_permission_filter(_, _, _)
_apply_permission_filter(cfg, tree_structure, userid) ==
    IF tree_structure = <<>> \/ userid = None \/ userid = <<>> THEN tree_structure
    ELSE LET node_data == Head(tree_structure)
             node == node_data.node
             rest == IF Tail(tree_structure) = <<>> THEN <<>>
                     ELSE _apply_permission_filter(cfg, Tail(tree_structure), userid)
         IN  IF /\ node.type = "dataset"
                /\ node.id \in cfg.restricted_datasets
                /\ ~is_special_user(cfg, userid)
             THEN rest
             ELSE <<[node |-> node, depth |-> node_data.depth,
                     children |-> IF node_data.children # <<>>
                                  THEN _apply_permission_filter(cfg, node_data.children, userid)
                                  ELSE <<>>]>> \o rest

\* TreeService.get_knowledge_base_tree; the Markdown text lists every node
\* of the forest it is given and is modelled by that forest
get_knowledge_base_tree(cfg, st, parent_id, search_value, deep, userid) ==
    LET keywords == _parse_search_keywords(search_value)
        built == IF keywords # <<>>
                 THEN _build_tree_with_concurrent_search(st, parent_id, keywords, deep)
                 ELSE _build_tree_recursively(st, parent_id, deep, 0)
        tree_structure == IF userid # None /\ userid # <<>> /\ built.tree # <<>>
                          THEN _apply_permission_filter(cfg, built.tree, userid)
                          ELSE built.tree
    IN  [status |-> IF tree_structure = <<>> THEN "empty" ELSE "ok",
         forest |-> tree_structure,
         fallback |-> FALSE,
         max_depth |-> deep,
         reqs |-> built.reqs]

\* mutant: the folder is checked and the keyword pass is final, no walk
\* follows an empty one
explore_folder_contents_noFallback(cfg, st, folder_id, search_value, deep_arg, userid) ==
    LET deep == IF deep_arg < LowestDeep \/ deep_arg > HighestDeep
                THEN DefaultExploreDeep ELSE deep_arg
        probe == TreeRequest(folder_id, <<>>, 1)
        listed == get_knowledge_base_tree(cfg, st, folder_id, search_value, deep, userid)
    IN  IF ApiFails(st, probe)
        THEN [status |-> "cannot_access", forest |-> <<>>, fallback |-> FALSE,
              max_depth |-> deep, reqs |-> <<probe>>]
        ELSE IF get_dataset_tree(st, probe) = <<>>
        THEN [status |-> "folder_not_found", forest |-> <<>>, fallback |-> FALSE,
              max_depth |-> deep, reqs |-> <<probe>>]
        ELSE [listed EXCEPT !.reqs = <<probe>> \o @]

\* TreeService.explore_folder_contents
explore_folder_contents(cfg, st, folder_id, search_value, deep_arg, userid) ==
    LET deep == IF deep_arg < LowestDeep \/ deep_arg > HighestDeep
                THEN DefaultExploreDeep ELSE deep_arg
        probe == TreeRequest(folder_id, <<>>, 1)
    IN  IF ApiFails(st, probe)
        THEN [status |-> "cannot_access", forest |-> <<>>, fallback |-> FALSE,
              max_depth |-> deep, reqs |-> <<probe>>]
        ELSE IF get_dataset_tree(st, probe) = <<>>
        THEN [status |-> "folder_not_found", forest |-> <<>>, fallback |-> FALSE,
              max_depth |-> deep, reqs |-> <<probe>>]
        ELSE
        LET keywords == _parse_search_keywords(search_value)
            searched == IF keywords # <<>>
                        THEN _build_tree_with_concurrent_search(st, folder_id, keywords, deep)
                        ELSE NoTree
            search_fallback_used == keywords # <<>> /\ searched.tree = <<>>
            walked == IF keywords = <<>> \/ search_fallback_used
                      THEN _build_tree_recursively(st, folder_id, deep, 0)
                      ELSE NoTree
            folder_contents == IF keywords # <<>> /\ ~search_fallback_used
                               THEN searched.tree ELSE walked.tree
            filtered == IF userid # None /\ userid # <<>> /\ folder_contents # <<>>
                        THEN _apply_permission_filter(cfg, folder_contents, userid)
                        ELSE folder_contents
        IN  [status |-> IF filtered = <<>> THEN "empty" ELSE "ok",
             forest |-> filtered,
             fallback |-> search_fallback_used /\ filtered # <<>>,
             max_depth |-> deep,
             reqs |-> <<probe>> \o searched.reqs \o walked.reqs]

\* the tool get_dataset_tree of main.py: it has no user parameter and calls
\* the service without one
get_kb_tree(cfg, st, search_value, deep) ==
    get_knowledge_base_tree(cfg, st, default_parent_id, search_value, deep, None)

\* the tool explore_folder_contents of main.py, likewise
explore_folder_contents_tool(cfg, st, folder_id, search_value, deep) ==
    explore_folder_contents(cfg, st, folder_id, search_value, deep, None)

(***************************************************************************)
(* Specification SpecTree: the two tree tools called by any user on any    *)
(* store                                                                   *)
(***************************************************************************)
TreeCallers == {<<"1">>, <<"2">>}

TreeConfigs == [special_access_users : {{}, {<<"1">>}},
                restricted_datasets : {{}, {"dsA"}, {"dsA", "dsC"}}]

InitTree ==
    /\ config \in TreeConfigs
    /\ store \in TreeStores
    /\ pc = "idle"
    /\ locals = NoValue
    /\ requests = <<>>
    /\ result = NoValue

\* a caller invokes the tool get_dataset_tree
GetKbTree ==
    \E caller \in TreeCallers, search_value \in SearchValues, deep \in Depths :
        LET r == get_kb_tree(config, store, search_value, deep)
        IN  /\ pc = "idle"
            /\ pc' = "done"
            /\ locals' = [op |-> "get_dataset_tree", caller |-> caller,
                          root |-> default_parent_id,
                          search_value |-> search_value, deep |-> deep,
                          max_depth |-> r.max_depth, userid |-> None]
            /\ requests' = r.reqs
            /\ result' = [op |-> "get_dataset_tree", status |-> r.status,
                          forest |-> r.forest, fallback |-> r.fallback]
            /\ UNCHANGED <<config, store>>

\* a caller invokes the tool explore_folder_contents
ExploreFolderContents ==
    \E caller \in TreeCallers, folder_id \in ParentIds \ {default_parent_id},
       search_value \in SearchValues, deep \in Depths :
        LET r == explore_folder_contents_tool(config, store, folder_id, search_value, deep)
        IN  /\ pc = "idle"
            /\ pc' = "done"
            /\ locals' = [op |-> "explore_folder_contents", caller |-> caller,
                          root |-> folder_id,
                          search_value |-> search_value, deep |-> deep,
                          max_depth |-> r.max_depth, userid |-> None]
            /\ requests' = r.reqs
            /\ result' = [op |-> "explore_folder_contents", status |-> r.status,
                          forest |-> r.forest, fallback |-> r.fallback]
            /\ UNCHANGED <<config, store>>

\* the tool has returned; nothing of a finished call is kept for the next one
ToolReturn ==
    /\ pc = "done"
    /\ pc' = "idle"
    /\ locals' = NoValue
    /\ requests' = <<>>
    /\ result' = NoValue
    /\ UNCHANGED <<config, store>>

NextTree == GetKbTree \/ ExploreFolderContents \/ ToolReturn

SpecTree == InitTree /\ [][NextTree]_vars

\* the ids of the dataset nodes of a forest, at any depth
RECURSIVE DatasetIdsOf(_)
DatasetIdsOf(forest) ==
    UNION { (IF forest[i].node.type = "dataset" THEN {forest[i].node.id} ELSE {})
            \cup DatasetIdsOf(forest[i].children) : i \in 1..Len(forest) }

\* C2: the forest a tree tool returns to a user who does not match the
\* privileged pattern holds no dataset node of the restricted set, at any
\* depth, whichever pass (keyword, fallback, unfiltered walk) produced it.
C2_NoRestrictedDatasetInForest ==
    (result.op \in {"get_dataset_tree", "explore_folder_contents"}
     /\ ~is_special_user(config, locals.caller))
        => DatasetIdsOf(result.forest) \cap config.restricted_datasets = {}

(***************************************************************************)
(* SearchService (src/src/services/search_service.py) and the search tools *)
(*                                                                         *)
(* store.hits[text]      the hits the store holds for a search text        *)
(* store.honours_limit   whether the store cuts its response to the limit  *)
(* store.fail            the <<dataset, text>> searches answered by error  *)
(***************************************************************************)
RECURSIVE Sum(_)
Sum(xs) == IF xs = <<>> THEN 0 ELSE Head(xs) + Sum(Tail(xs))

\* sum(s.get("value", 0) for s in x.score)
ScoreOf(hit) == Sum(hit.score)

Hit(id, collection_id, score, source_name) ==
    [id |-> id, collection_id |-> collection_id, score |-> score,
     source_name |-> source_name]

h1 == Hit(<<"a">>, <<"a">>, <<5, 4>>, "docA")
h2 == Hit(<<"b">>, <<"a">>, <<2>>, "docA")
h3 == Hit(<<"c">>, <<"b">>, <<5>>, "docB")
\* two hits of different (id, collection_id) whose texts joined by "_" agree
hX == Hit(<<"a">>, <<"a", "_", "a">>, <<3>>, "docX")
hY == Hit(<<"a", "_", "a">>, <<"a">>, <<7>>, "docY")

SearchTexts == {<<"k">>, <<"j">>, <<"k", TAB, "j">>}

HitLists == {<<>>, <<h1, h2>>, <<h2, h3>>, <<hX, hY>>}

SearchDatasets == {"dsA", "dsB"}

SearchFailSets == {{}, {<<"dsA", <<"k">>>>}, {<<"dsB", <<"j">>>>}}

\* the store holds any of the hit lists for each single term, and one list
\* for the text of two terms joined by a tab
SearchStores ==
    {st \in [hits : [SearchTexts -> HitLists],
             honours_limit : BOOLEAN,
             fail : SearchFailSets] : st.hits[<<"k", TAB, "j">>] = <<h2, h3>>}

SearchRequest(dataset_id, text, limit) ==
    [api |-> "search_dataset", datasetId |-> dataset_id, text |-> text, limit |-> limit]

\* APIClient.search_dataset raises
SearchFails(st, req) == <<req.datasetId, req.text>> \in st.fail

\* APIClient.search_dataset: the list of the response
search_dataset(st, req) ==
    LET held == IF req.text \in DOMAIN st.hits THEN st.hits[req.text] ELSE <<>>
    IN  IF st.honours_limit THEN Take(held, req.limit) ELSE held

\* f"{item.id}_{item.collection_id}"
unique_id(item) == item.id \o <<"_">> \o item.collection_id

\* the inner loop of _search_with_keywords over one response
RECURSIVE MergeResults(_, _)
MergeResults(results, acc) ==
    IF results = <<>> THEN acc
    ELSE LET item == Head(results)
         IN  MergeResults(Tail(results),
                IF unique_id(item) \in acc.seen_ids THEN acc
                ELSE [all_results |-> Append(acc.all_results, item),
                      seen_ids |-> acc.seen_ids \cup {unique_id(item)}])

\* list.sort(key = total score, reverse = True): a stable sort, so hits of
\* equal score keep their order
RECURSIVE InsertByScore(_, _, _)
InsertByScore(sorted, item, k) ==
    IF k > Len(sorted) THEN Append(sorted, item)
    ELSE IF ScoreOf(sorted[k]) < ScoreOf(item)
         THEN SubSeq(sorted, 1, k - 1) \o <<item>> \o SubSeq(sorted, k, Len(sorted))
         ELSE InsertByScore(sorted, item, k + 1)

RECURSIVE SortByScoreDesc(_, _)
SortByScoreDesc(items, sorted) ==
    IF items = <<>> THEN sorted
    ELSE SortByScoreDesc(Tail(items), InsertByScore(sorted, Head(items), 1))

\* the loop of _search_with_keywords over the keywords: the requests are
\* sent one after the other and a failing one ends the loop by its exception
RECURSIVE KeywordLoop(_, _, _, _, _)
KeywordLoop(st, dataset_id, keywords, limit, acc) ==
    IF keywords = <<>> THEN acc
    ELSE LET req == SearchRequest(dataset_id, Head(keywords), limit)
             sent == Append(acc.reqs, req)
         IN  IF SearchFails(st, req)
             THEN [acc EXCEPT !.reqs = sent, !.raised = TRUE]
             ELSE LET m == MergeResults(search_dataset(st, req),
                                        [all_results |-> acc.all_results,
                                         seen_ids |-> acc.seen_ids])
                  IN  KeywordLoop(st, dataset_id, Tail(keywords), limit,
                                  [all_results |-> m.all_results, seen_ids |-> m.seen_ids,
                                   reqs |-> sent, raised |-> FALSE])

_search_with_keywords(st, dataset_id, text, limit) ==
    IF text # <<>> /\ Contains(strip(text), <<" ">>)
    THEN LET kws == split(text)
             keywords == SelectSeq([i \in 1..Len(kws) |-> strip(kws[i])],
                                   LAMBDA kw : kw # <<>>)
             done == KeywordLoop(st, dataset_id, keywords, limit,
                                 [all_results |-> <<>>, seen_ids |-> {},
                                  reqs |-> <<>>, raised |-> FALSE])
         IN  IF done.raised
             THEN [raised |-> TRUE, hits |-> <<>>, reqs |-> done.reqs]
             ELSE [raised |-> FALSE,
                   hits |-> Take(SortByScoreDesc(done.all_results, <<>>), limit),
                   reqs |-> done.reqs]
    ELSE LET req == SearchRequest(dataset_id, text, limit)
         IN  IF SearchFails(st, req)
             THEN [raised |-> TRUE, hits |-> <<>>, reqs |-> <<req>>]
             ELSE [raised |-> FALSE, hits |-> search_dataset(st, req), reqs |-> <<req>>]

\* SearchService.search_knowledge_base; the Markdown text is modelled by the
\* hits it renders.  The detail and download requests of the rendering are
\* not part of the model.
\* mutant: the exception of a failed request is not caught
search_knowledge_base_uncaught(cfg, st, dataset_id, text, limit, userid) ==
    LET r == _search_with_keywords(st, dataset_id, text, limit)
    IN  IF r.raised THEN [status |-> "exception", hits |-> <<>>, reqs |-> r.reqs]
        ELSE IF r.hits = <<>> THEN [status |-> "no_results", hits |-> <<>>, reqs |-> r.reqs]
        ELSE [status |-> "ok", hits |-> r.hits, reqs |-> r.reqs]

search_knowledge_base(cfg, st, dataset_id, text, limit, userid) ==
    IF userid # None /\ userid # <<>> /\ ~PermissionService_has_dataset_access(cfg, userid, dataset_id)
    THEN [status |-> "permission_denied", hits |-> <<>>, reqs |-> <<>>]
    ELSE LET r == _search_with_keywords(st, dataset_id, text, limit)
         IN  IF r.raised THEN [status |-> "search_error", hits |-> <<>>, reqs |-> r.reqs]
             ELSE IF r.hits = <<>> THEN [status |-> "no_results", hits |-> <<>>, reqs |-> r.reqs]
             ELSE [status |-> "ok", hits |-> r.hits, reqs |-> r.reqs]

\* the tool search_dataset of main.py
search_kb(cfg, st, dataset_id, text, limit) ==
    search_knowledge_base(cfg, st, dataset_id, text, limit, None)

\* mutant: a failed search gives the entry of a search without results
search_single_dataset_hidesFailure(cfg, st, dataset_id, query, limit_per_dataset) ==
    LET r == search_knowledge_base(cfg, st, dataset_id, query, limit_per_dataset, None)
    IN  [dataset_id |-> dataset_id,
         status |-> IF r.status = "search_error" THEN "no_results" ELSE r.status,
         hits |-> r.hits, reqs |-> r.reqs]

\* search_single_dataset of the tool multi_dataset_search
search_single_dataset(cfg, st, dataset_id, query, limit_per_dataset) ==
    LET r == search_knowledge_base(cfg, st, dataset_id, query, limit_per_dataset, None)
    IN  [dataset_id |-> dataset_id, status |-> r.status, hits |-> r.hits, reqs |-> r.reqs]

\* "❌" in search_result: of the texts search_knowledge_base returns only
\* the one of a refused permission ("# ❌ 权限不足") holds the mark; the text
\* of a failed search is "# 搜索出错" and the error message
has_failure_mark(search_result) == search_result.status = "permission_denied"

\* the summary multi_dataset_search makes of the results gather returned: one
\* entry per result, in the order of the ids, and the count of the results
\* without the mark
search_summary(results) ==
    [status |-> "summary",
     entries |-> [i \in 1..Len(results) |->
                     [dataset_id |-> results[i].dataset_id,
                      status |-> results[i].status,
                      hits |-> results[i].hits]],
     successful_searches |->
         Cardinality({i \in 1..Len(results) : ~has_failure_mark(results[i])}),
     reqs |-> Flatten([i \in 1..Len(results) |-> results[i].reqs])]

\* the tool multi_dataset_search of main.py, called with a list of ids
multi_dataset_search(cfg, st, dataset_ids, query, limit_per_dataset) ==
    IF dataset_ids = <<>>
    THEN [status |-> "no_dataset_id", entries |-> <<>>, successful_searches |-> 0,
          reqs |-> <<>>]
    ELSE IF strip(query) = <<>>
    THEN [status |-> "no_query", entries |-> <<>>, successful_searches |-> 0,
          reqs |-> <<>>]
    ELSE IF limit_per_dataset < 1 \/ limit_per_dataset > 20
    THEN [status |-> "limit_out_of_range", entries |-> <<>>, successful_searches |-> 0,
          reqs |-> <<>>]
    ELSE search_summary([i \in 1..Len(dataset_ids) |->
                            search_single_dataset(cfg, st, dataset_ids[i], query,
                                                  limit_per_dataset)])

(***************************************************************************)
(* Specification SpecSearch: the two search tools called by any user       *)
(***************************************************************************)
Queries == {<<>>, <<" ">>, <<"k">>, <<"k", " ", "j">>, <<"j", " ", "k">>, <<"k", TAB, "j">>}

MaxLimit == 2

Limits == 1..MaxLimit

SearchCallers == {<<"1">>, <<"2">>}

SearchConfigs == [special_access_users : {{<<"1">>}},
                  restricted_datasets : {{}, {"dsA"}, {"dsA", "dsB"}}]

InitSearch ==
    /\ config \in SearchConfigs
    /\ store \in SearchStores
    /\ pc = "idle"
    /\ locals = NoValue
    /\ requests = <<>>
    /\ result = NoValue

\* a caller invokes the tool search_dataset
SearchKb ==
    \E caller \in SearchCallers, dataset_id \in SearchDatasets,
       text \in Queries, limit \in Limits :
        LET r == search_kb(config, store, dataset_id, text, limit)
        IN  /\ pc = "idle"
            /\ pc' = "done"
            /\ locals' = [op |-> "search_dataset", caller |-> caller,
                          dataset_ids |-> <<dataset_id>>, text |-> text, limit |-> limit]
            /\ requests' = r.reqs
            /\ result' = [op |-> "search_dataset", status |-> r.status,
                          entries |-> <<[dataset_id |-> dataset_id, status |-> r.status,
                                         hits |-> r.hits]>>]
            /\ UNCHANGED <<config, store>>

\* a list of six dataset ids
LongIdList == [i \in 1..6 |-> IF i % 2 = 1 THEN "dsA" ELSE "dsB"]

\* a caller invokes the tool multi_dataset_search
MultiDatasetSearch ==
    \E caller \in SearchCallers,
       dataset_ids \in SeqsUpTo(SearchDatasets, MaxIdList) \cup {LongIdList},
       query \in Queries, limit_per_dataset \in Limits :
        LET r == multi_dataset_search(config, store, dataset_ids, query, limit_per_dataset)
        IN  /\ pc = "idle"
            /\ pc' = "done"
            /\ locals' = [op |-> "multi_dataset_search", caller |-> caller,
                          dataset_ids |-> dataset_ids, text |-> query,
                          limit |-> limit_per_dataset]
            /\ requests' = r.reqs
            /\ result' = [op |-> "multi_dataset_search", status |-> r.status,
                          entries |-> r.entries,
                          successful_searches |-> r.successful_searches]
            /\ UNCHANGED <<config, store>>

NextSearch == SearchKb \/ MultiDatasetSearch \/ ToolReturn

SpecSearch == InitSearch /\ [][NextSearch]_vars

\* C3: multi_dataset_search sends a search request only for requested
\* datasets that are visible to the calling user, and when none of the
\* requested datasets is visible it returns an Unauthorized failure and
\* sends no search request.  (Stated for calls with a non-blank query and at
\* least one dataset id, which pass the validation of the arguments.)
C3_SearchOnlyVisibleDatasets ==
    (result.op = "multi_dataset_search" /\ strip(locals.text) # <<>>
     /\ locals.dataset_ids # <<>>) =>
        LET visible == filter_allowed_datasets(config, locals.caller, locals.dataset_ids)
        IN  /\ \A i \in 1..Len(requests) : requests[i].datasetId \in Range(visible)
            /\ (locals.dataset_ids # <<>> /\ visible = <<>>) =>
                  (result.status = "unauthorized" /\ requests = <<>>)

\* the positions of a list whose (id, collection_id) pair occurs at no
\* earlier position
FirstOfPair(items) ==
    {i \in 1..Len(items) :
        \A j \in 1..(i - 1) :
            <<items[j].id, items[j].collection_id>> # <<items[i].id, items[i].collection_id>>}

\* the place of position i among the positions P of a list when they are
\* ordered by total score descending, equal scores by position
RankIn(items, P, i) ==
    1 + Cardinality({j \in P : \/ ScoreOf(items[j]) > ScoreOf(items[i])
                               \/ ScoreOf(items[j]) = ScoreOf(items[i]) /\ j < i})

\* the first occurrences of each pair, by total score descending, ties in
\* first-seen order
DedupedByScore(items) ==
    LET P == FirstOfPair(items)
    IN  [r \in 1..Cardinality(P) |-> items[CHOOSE i \in P : RankIn(items, P, i) = r]]

\* C5: a search on one dataset with a query of two or more
\* whitespace-separated terms and a limit >= 1 sends exactly one sub-search
\* per term, each with that limit, and returns the sub-results concatenated
\* in term order, cut down to the first occurrence of each (hit id,
\* collectionId) pair, sorted by total score descending with ties in
\* first-seen order, cut to the first `limit` hits.  (Stated for queries
\* whose terms are separated by blanks and for calls in which the store
\* answers every sub-search.)
C5_MultiTermSearch ==
    (result.op = "search_dataset" /\ Len(split(locals.text)) >= 2 /\ locals.limit >= 1
     /\ ~Contains(locals.text, <<TAB>>) /\ ~Contains(locals.text, <<NL>>)) =>
        LET terms == split(locals.text)
            subs == [i \in 1..Len(terms) |->
                        SearchRequest(locals.dataset_ids[1], terms[i], locals.limit)]
        IN  (\A i \in 1..Len(subs) : ~SearchFails(store, subs[i])) =>
                /\ requests = subs
                /\ result.entries[1].hits =
                      Take(DedupedByScore(Flatten([i \in 1..Len(subs) |->
                                                      search_dataset(store, subs[i])])),
                           locals.limit)

(***************************************************************************)
(* CollectionService (src/src/services/collection_service.py) and the tool *)
(* view_collection_content                                                 *)
(*                                                                         *)
(* store.chunks       the chunks of the collection, in the store's order   *)
(* store.detail       the collection detail, NoDetail when it is not served *)
(* store.fail_offset  the offset whose page request fails, or -1           *)
(***************************************************************************)
MaxChunks == 4

MaxPageSize == 3

\* chunk indexes are assigned in increasing order but are not contiguous
ChunkIndexOf(k) == IF k < 4 THEN k - 1 ELSE k + 1

DataChunk(chunk_index, q, a) == [chunk_index |-> chunk_index, q |-> q, a |-> a]

\* the chunk of index 1 has an answer, the chunk of index 2 a blank content
Chunk(chunk_index) ==
    DataChunk(chunk_index,
              IF chunk_index = 2 THEN <<" ">> ELSE <<"q", " ">>,
              IF chunk_index = 1 THEN <<"a">> ELSE <<>>)

\* every order in which the store may hold the n chunks of a collection
ChunkOrders(n) ==
    {[i \in 1..n |-> Chunk(ChunkIndexOf(perm[i]))] : perm \in Permutations(1..n)}

\* get_collection_detail gives None when the detail is not served
NoDetail == [name |-> "", type |-> "None"]

DocStores == [chunks : UNION {ChunkOrders(n) : n \in 0..MaxChunks},
              detail : {NoDetail, [name |-> "doc", type |-> "file"]},
              fail_offset : {-1, 0, 2}]

PageRequest(collection_id, offset, page_size) ==
    [api |-> "get_collection_chunks_page", collectionId |-> collection_id,
     offset |-> offset, pageSize |-> page_size]

\* the store serves the pages of the chunks it holds for a collection by
\* offset
chunks_data(held, req) == SubSeq(held, req.offset + 1, Min(req.offset + req.pageSize, Len(held)))

\* mutant: more data is expected after every page that is not empty
has_more_whenNotEmpty(held, req) == Len(chunks_data(held, req)) > 0

\* APIClient.get_collection_chunks_page: has_more
has_more(held, req) == Len(chunks_data(held, req)) = req.pageSize

PageFails(st, req) == req.offset = st.fail_offset

RECURSIVE InsertByIndex(_, _, _)
InsertByIndex(sorted, chunk, k) ==
    IF k > Len(sorted) THEN Append(sorted, chunk)
    ELSE IF chunk.chunk_index < sorted[k].chunk_index
         THEN SubSeq(sorted, 1, k - 1) \o <<chunk>> \o SubSeq(sorted, k, Len(sorted))
         ELSE InsertByIndex(sorted, chunk, k + 1)

\* sorted(chunks, key=lambda x: x.chunk_index): a stable sort
RECURSIVE SortByIndex(_, _)
SortByIndex(chunks, sorted) ==
    IF chunks = <<>> THEN sorted
    ELSE SortByIndex(Tail(chunks), InsertByIndex(sorted, Head(chunks), 1))

\* CollectionService._format_chunks_content: one block per chunk, numbered
\* from 1, in the order of the list it is given
_format_chunks_content(chunks) ==
    [i \in 1..Len(chunks) |->
        [number |-> i, chunk_index |-> chunks[i].chunk_index,
         content |-> strip(chunks[i].q), answer |-> strip(chunks[i].a)]]

(***************************************************************************)
(* Specification SpecDoc: view_collection_content, one request at a time   *)
(***************************************************************************)
PageSizes == 1..MaxPageSize

InitDoc ==
    /\ config = [special_access_users |-> {}, restricted_datasets |-> {}]
    /\ store \in DocStores
    /\ pc = "idle"
    /\ locals = NoValue
    /\ requests = <<>>
    /\ result = NoValue

\* the tool view_collection_content is called
ViewCollectionContent ==
    \E page_size \in PageSizes :
        /\ pc = "idle"
        /\ pc' = "get_detail"
        /\ locals' = [op |-> "view_collection_content", collection_id |-> "c1",
                      page_size |-> page_size, collection_detail |-> NoDetail,
                      all_chunks |-> <<>>, offset |-> 0]
        /\ UNCHANGED <<config, store, requests, result>>

\* collection_detail = await get_collection_detail(collection_id); a failure
\* gives None
GetCollectionDetail ==
    /\ pc = "get_detail"
    /\ requests' = Append(requests, [api |-> "get_collection_detail",
                                     collectionId |-> locals.collection_id])
    /\ locals' = [locals EXCEPT !.collection_detail = store.detail]
    /\ pc' = "get_chunks"
    /\ UNCHANGED <<config, store, result>>

\* one turn of the loop of _get_all_chunks; a failing page request ends the
\* tool by the handler of view_collection_content
GetChunksPage ==
    /\ pc = "get_chunks"
    /\ LET req == PageRequest(locals.collection_id, locals.offset, locals.page_size)
           chunks == chunks_data(store.chunks, req)
       IN  /\ requests' = Append(requests, req)
           /\ IF PageFails(store, req)
              THEN /\ pc' = "done"
                   /\ result' = [op |-> "view_collection_content", status |-> "error",
                                 blocks |-> <<>>, chunk_count |-> 0]
                   /\ UNCHANGED locals
              ELSE IF chunks = <<>>
              THEN /\ pc' = "get_link"
                   /\ UNCHANGED <<locals, result>>
              ELSE IF ~has_more(store.chunks, req)
              THEN /\ pc' = "get_link"
                   /\ locals' = [locals EXCEPT !.all_chunks = @ \o chunks]
                   /\ UNCHANGED result
              ELSE /\ pc' = "get_chunks"
                   /\ locals' = [locals EXCEPT !.all_chunks = @ \o chunks,
                                               !.offset = @ + locals.page_size]
                   /\ UNCHANGED result
    /\ UNCHANGED <<config, store>>

\* download_link = await get_file_download_link(collection_id), then the
\* text is put together and returned
FormatCollectionContent ==
    /\ pc = "get_link"
    /\ requests' = Append(requests, [api |-> "get_collection_file_info",
                                     collectionId |-> locals.collection_id])
    /\ result' = IF locals.all_chunks = <<>>
                 THEN [op |-> "view_collection_content", status |-> "no_chunks",
                       blocks |-> <<>>, chunk_count |-> 0]
                 ELSE [op |-> "view_collection_content", status |-> "ok",
                       blocks |-> _format_chunks_content(locals.all_chunks),
                       chunk_count |-> Len(locals.all_chunks)]
    /\ pc' = "done"
    /\ UNCHANGED <<config, store, locals>>

NextDoc == ViewCollectionContent \/ GetCollectionDetail \/ GetChunksPage
              \/ FormatCollectionContent \/ ToolReturn

SpecDoc == InitDoc /\ [][NextDoc]_vars

\* the page requests sent so far
PageRequests == SelectSeq(requests, LAMBDA r : r.api = "get_collection_chunks_page")

\* C6: with the store serving pages by offset, document assembly requests
\* the pages at offsets 0, p, 2p, ... in that order, no page after the first
\* one that holds fewer than p chunks; it ends after exactly floor(n/p)+1
\* page requests with every chunk of the collection in the accumulator
\* exactly once, and an empty first page gives a document of zero chunks,
\* not an error.
C6_Pagination ==
    (pc # "idle" /\ store.fail_offset \notin {PageRequests[i].offset : i \in 1..Len(PageRequests)}) =>
        LET p == locals.page_size
            n == Len(store.chunks)
            sent == PageRequests
        IN  /\ \A i \in 1..Len(sent) :
                  /\ sent[i] = PageRequest(locals.collection_id, (i - 1) * p, p)
                  /\ i < Len(sent) => Len(chunks_data(store.chunks, sent[i])) = p
            /\ Len(sent) <= (n \div p) + 1
            /\ pc \in {"get_link", "done"} =>
                  /\ Len(sent) = (n \div p) + 1
                  /\ Len(chunks_data(store.chunks, sent[Len(sent)])) < p
                  /\ locals.all_chunks = store.chunks
            /\ (pc = "done" /\ n = 0) =>
                  (result.status = "no_chunks" /\ result.chunk_count = 0)
            /\ (pc = "done" /\ n > 0) =>
                  (result.status = "ok" /\ result.chunk_count = n)

C6_Witness ==
    /\ pc = "done"
    /\ result.status = "ok"
    /\ Len(store.chunks) = 4
    /\ locals.page_size = 2
    /\ Len(PageRequests) = 3

\* C7: for every order in which the store returns the chunks of a
\* collection, view_collection_content puts out the chunks' text in
\* ascending chunkIndex order (as analyzeQuestion does).
C7_ViewInChunkIndexOrder ==
    (pc = "done" /\ result.op = "view_collection_content" /\ result.status = "ok") =>
        \A i, j \in 1..Len(result.blocks) :
            i < j => result.blocks[i].chunk_index < result.blocks[j].chunk_index

(***************************************************************************)
(* DocumentAnalysisService                                                 *)
(* (src/src/services/document_analysis_service.py)                         *)
(*                                                                         *)
(* store.hits         the search results the store holds, by dataset       *)
(* store.search_fail  the datasets whose search request fails              *)
(* store.chunks       the chunks of every collection, in the store's order *)
(* store.page_fail    the collections whose chunk page requests fail       *)
(* store.detail       the collections whose detail is served               *)
(***************************************************************************)
Pad(c, n) == [i \in 1..n |-> c]

\* s.split(sep): the parts between the occurrences of sep, found from the
\* left, empty parts kept
RECURSIVE split_on(_, _)
split_on(s, sep) ==
    LET found == {i \in 1..(Len(s) - Len(sep) + 1) : SubSeq(s, i, i + Len(sep) - 1) = sep}
    IN  IF found = {} THEN <<s>>
        ELSE LET first == CHOOSE i \in found : \A j \in found : i <= j
             IN  <<SubSeq(s, 1, first - 1)>> \o split_on(Drop(s, first + Len(sep) - 1), sep)

\* '\n\n'
BlankLine == <<NL, NL>>

\* a search result with its content q
SearchResult(id, collection_id, score, source_name, q) ==
    [id |-> id, collection_id |-> collection_id, score |-> score,
     source_name |-> source_name, q |-> q]

ExcerptLength == 200

LongContent == Pad("x", ExcerptLength + 1)

rA1 == SearchResult(<<"a">>, <<"a">>, <<5, 4>>, "docA", <<"q">>)
rA2 == SearchResult(<<"b">>, <<"a">>, <<2>>, "docA2", LongContent)
rB == SearchResult(<<"c">>, <<"b">>, <<5>>, "docB", LongContent)
rB2 == SearchResult(<<"e">>, <<"b">>, <<4>>, "docB2", <<"q">>)
rC == SearchResult(<<"d">>, <<"c">>, <<5>>, "docC", Pad("x", ExcerptLength))

ResultLists == {<<>>, <<rA1, rA2>>, <<rB, rC>>, <<rC, rB2, rA2>>}

AnalyzeDatasets == {"dsA", "dsB"}

Collections == {<<"a">>, <<"b">>, <<"c">>}

\* paragraphs of chunk text: MinParagraphLength + 1 characters with the
\* letter k in upper case or the letter j, and MinParagraphLength characters
MinParagraphLength == 50

ParK == <<"K">> \o Pad("x", MinParagraphLength)

ParJ == <<"j">> \o Pad("x", MinParagraphLength)

ParShort == <<"k">> \o Pad("x", MinParagraphLength - 1)

ChunkLayouts ==
    {[c \in Collections |->
        IF c = <<"a">> THEN <<DataChunk(1, ParJ, <<>>), DataChunk(0, ParK, <<"k">>)>>
        ELSE IF c = <<"b">> THEN <<DataChunk(0, ParK, <<>>)>>
        ELSE <<>>],
     [c \in Collections |->
        IF c = <<"a">> THEN <<DataChunk(0, ParShort, <<>>)>>
        ELSE IF c = <<"b">> THEN <<>>
        ELSE <<DataChunk(0, <<"q">>, <<"a">>)>>]}

AnalyzeStores ==
    [hits : [AnalyzeDatasets -> ResultLists],
     search_fail : {{}, {"dsA"}},
     chunks : ChunkLayouts,
     page_fail : {{}, {<<"a">>}, Collections},
     detail : {{}, Collections}]

\* APIClient.search_dataset, of a store that holds its results by dataset,
\* or by dataset and text of the request
search_dataset_of(st, req) ==
    Take(IF "hits_by_text" \in DOMAIN st
         THEN st.hits_by_text[req.datasetId][req.text]
         ELSE st.hits[req.datasetId],
         req.limit)

DetailRequest(collection_id) ==
    [api |-> "get_collection_detail", collectionId |-> collection_id]

\* all_results[dataset_id] = results: a dict keeps the position of a key
\* that is assigned again
DictSet(d, key, value) ==
    IF \E i \in 1..Len(d) : d[i].key = key
    THEN [i \in 1..Len(d) |-> IF d[i].key = key THEN [key |-> key, value |-> value] ELSE d[i]]
    ELSE Append(d, [key |-> key, value |-> value])

\* the loop of _search_across_datasets: a failing search is skipped, an
\* empty result is not stored
RECURSIVE SearchAcrossLoop(_, _, _, _, _)
SearchAcrossLoop(st, question, dataset_ids, max_results, acc) ==
    IF dataset_ids = <<>> THEN acc
    ELSE LET dataset_id == Head(dataset_ids)
             req == SearchRequest(dataset_id, question, max_results)
             sent == Append(acc.reqs, req)
             results == search_dataset_of(st, req)
         IN  SearchAcrossLoop(st, question, Tail(dataset_ids), max_results,
                IF dataset_id \in st.search_fail \/ results = <<>>
                THEN [acc EXCEPT !.reqs = sent]
                ELSE [all_results |-> DictSet(acc.all_results, dataset_id, results),
                      reqs |-> sent])

_search_across_datasets(st, question, dataset_ids, max_results) ==
    SearchAcrossLoop(st, question, dataset_ids, max_results,
                     [all_results |-> <<>>, reqs |-> <<>>])

\* the hits in the order of the two loops over search_results: each with
\* the dataset it was found in
HitsInOrder(search_results) ==
    Flatten([d \in 1..Len(search_results) |->
                [i \in 1..Len(search_results[d].value) |->
                    [dataset_id |-> search_results[d].key,
                     result |-> search_results[d].value[i]]]])

\* result.q[:200] + "..." if len(result.q) > 200 else result.q
sample_content(q) ==
    IF Len(q) > ExcerptLength THEN Take(q, ExcerptLength) \o <<".", ".", ".">> ELSE q

\* collection_scores and collection_info, in the order the keys were added
RECURSIVE ScoreLoop(_, _)
ScoreLoop(hits, acc) ==
    IF hits = <<>> THEN acc
    ELSE LET dataset_id == Head(hits).dataset_id
             hit == Head(hits).result
             collection_id == hit.collection_id
             score == Sum(hit.score)
         IN  ScoreLoop(Tail(hits),
                IF \E k \in 1..Len(acc) : acc[k].collection_id = collection_id
                THEN [k \in 1..Len(acc) |->
                        IF acc[k].collection_id = collection_id
                        THEN [acc[k] EXCEPT !.relevance_score = @ + score]
                        ELSE acc[k]]
                ELSE Append(acc, [collection_id |-> collection_id,
                                  dataset_id |-> dataset_id,
                                  source_name |-> hit.source_name,
                                  relevance_score |-> score,
                                  sample_content |-> sample_content(hit.q)]))

\* mutant: an entry goes before the entries of equal score
InsertByRelevance_beforeEqual(sorted, item, k) ==
    LET before == SelectSeq(sorted, LAMBDA x : x.relevance_score > item.relevance_score)
        after == SelectSeq(sorted, LAMBDA x : x.relevance_score <= item.relevance_score)
    IN  before \o <<item>> \o after

\* sorted(..., key = score, reverse = True): a stable sort
RECURSIVE InsertByRelevance(_, _, _)
InsertByRelevance(sorted, item, k) ==
    IF k > Len(sorted) THEN Append(sorted, item)
    ELSE IF sorted[k].relevance_score < item.relevance_score
         THEN SubSeq(sorted, 1, k - 1) \o <<item>> \o SubSeq(sorted, k, Len(sorted))
         ELSE InsertByRelevance(sorted, item, k + 1)

RECURSIVE SortByRelevance(_, _)
SortByRelevance(items, sorted) ==
    IF items = <<>> THEN sorted
    ELSE SortByRelevance(Tail(items), InsertByRelevance(sorted, Head(items), 1))

_identify_relevant_collections(search_results, max_docs) ==
    Take(SortByRelevance(ScoreLoop(HitsInOrder(search_results), <<>>), <<>>), max_docs)

\* page_size = 50 of _get_document_contents
analysis_page_size == 50

\* the pagination loop of _get_document_contents
RECURSIVE ChunkPagesLoop(_, _, _, _)
ChunkPagesLoop(st, collection_id, offset, acc) ==
    LET req == PageRequest(collection_id, offset, analysis_page_size)
        sent == Append(acc.reqs, req)
        chunks == chunks_data(st.chunks[collection_id], req)
    IN  IF collection_id \in st.page_fail
        THEN [raised |-> TRUE, all_chunks |-> acc.all_chunks, reqs |-> sent]
        ELSE IF chunks = <<>>
        THEN [raised |-> FALSE, all_chunks |-> acc.all_chunks, reqs |-> sent]
        ELSE IF ~has_more(st.chunks[collection_id], req)
        THEN [raised |-> FALSE, all_chunks |-> acc.all_chunks \o chunks, reqs |-> sent]
        ELSE ChunkPagesLoop(st, collection_id, offset + analysis_page_size,
                            [raised |-> FALSE, all_chunks |-> acc.all_chunks \o chunks,
                             reqs |-> sent])

\* "**答案**: ", eight characters
AnswerPrefix == <<"*", "*", "D", "A", "*", "*", ":", " ">>

\* the text of a chunk: its content and its answer, when not blank
ChunkParts(chunk) ==
    (IF strip(chunk.q) # <<>> THEN <<strip(chunk.q)>> ELSE <<>>)
        \o (IF strip(chunk.a) # <<>> THEN <<AnswerPrefix \o strip(chunk.a)>> ELSE <<>>)

_merge_chunks_content(chunks) ==
    LET ordered == SortByIndex(chunks, <<>>)
    IN  join(BlankLine, Flatten([i \in 1..Len(ordered) |-> ChunkParts(ordered[i])]))

\* the loop of _get_document_contents: a collection whose requests fail is
\* left out
RECURSIVE DocumentContentsLoop(_, _, _)
DocumentContentsLoop(st, relevant_collections, acc) ==
    IF relevant_collections = <<>> THEN acc
    ELSE LET collection_info == Head(relevant_collections)
             collection_id == collection_info.collection_id
             served == collection_id \in st.detail
             pages == ChunkPagesLoop(st, collection_id, 0,
                         [raised |-> FALSE, all_chunks |-> <<>>,
                          reqs |-> Append(acc.reqs, DetailRequest(collection_id))])
         IN  DocumentContentsLoop(st, Tail(relevant_collections),
                IF pages.raised
                THEN [acc EXCEPT !.reqs = pages.reqs]
                ELSE [document_contents |->
                        Append(acc.document_contents,
                            [collection_id |-> collection_id,
                             name |-> IF served THEN "detail name" ELSE collection_info.source_name,
                             type |-> IF served THEN "file" ELSE "unknown",
                             relevance_score |-> collection_info.relevance_score,
                             chunk_count |-> Len(pages.all_chunks),
                             content |-> _merge_chunks_content(pages.all_chunks)]),
                      reqs |-> pages.reqs])

_get_document_contents(st, relevant_collections) ==
    DocumentContentsLoop(st, relevant_collections,
                         [document_contents |-> <<>>, reqs |-> <<>>])

\* set(question.lower().split())
question_keywords(question) == Range(split(lower(question)))

\* the snippets of one document, in the order of its paragraphs
SnippetsOf(doc, keywords) ==
    LET paragraphs == split_on(doc.content, BlankLine)
        kept == SelectSeq(paragraphs,
                    LAMBDA paragraph :
                        /\ \E keyword \in keywords : Contains(lower(paragraph), keyword)
                        /\ Len(strip(paragraph)) > MinParagraphLength)
    IN  [i \in 1..Len(kept) |->
            [content |-> strip(kept[i]), source |-> doc.name,
             relevance |-> doc.relevance_score]]

\* mutant: the snippets stay in the order they were collected in
InsertSnippet_atEnd(sorted, item, k) == Append(sorted, item)

\* relevant_snippets.sort(key = relevance, reverse = True): a stable sort
RECURSIVE InsertSnippet(_, _, _)
InsertSnippet(sorted, item, k) ==
    IF k > Len(sorted) THEN Append(sorted, item)
    ELSE IF sorted[k].relevance < item.relevance
         THEN SubSeq(sorted, 1, k - 1) \o <<item>> \o SubSeq(sorted, k, Len(sorted))
         ELSE InsertSnippet(sorted, item, k + 1)

RECURSIVE SortSnippets(_, _)
SortSnippets(items, sorted) ==
    IF items = <<>> THEN sorted
    ELSE SortSnippets(Tail(items), InsertSnippet(sorted, Head(items), 1))

\* the number of snippets the answer shows
ShownSnippets == 3

\* the canonical answer, "未能找到直接回答该问题的具体信息"
NotFoundAnswer == [kind |-> "not_found", shown |-> <<>>, more |-> 0]

\* no answer section in the response
NoAnswer == [kind |-> "none", shown |-> <<>>, more |-> 0]

\* the answer text is modelled by the labelled snippets it shows and the
\* number its closing note gives (0: no note)
_generate_simple_answer(question, document_contents) ==
    LET keywords == question_keywords(question)
        collected == Flatten([d \in 1..Len(document_contents) |->
                                 SnippetsOf(document_contents[d], keywords)])
        relevant_snippets == SortSnippets(collected, <<>>)
    IN  IF relevant_snippets = <<>> THEN NotFoundAnswer
        ELSE [kind |-> "snippets",
              shown |-> [i \in 1..Min(ShownSnippets, Len(relevant_snippets)) |->
                            [source |-> relevant_snippets[i].source,
                             content |-> relevant_snippets[i].content]],
              more |-> IF Len(relevant_snippets) > ShownSnippets
                       THEN Len(relevant_snippets) - ShownSnippets ELSE 0]

\* the response is modelled by its overview numbers, its answer section and
\* its document list
_generate_comprehensive_response(question, search_results, document_contents) ==
    [dataset_count |-> Len(search_results),
     total_search_results |-> Sum([d \in 1..Len(search_results) |-> Len(search_results[d].value)]),
     answer |-> IF document_contents # <<>>
                THEN _generate_simple_answer(question, document_contents)
                ELSE NoAnswer,
     documents |-> [d \in 1..Len(document_contents) |->
                       [name |-> document_contents[d].name,
                        relevance_score |-> document_contents[d].relevance_score,
                        chunk_count |-> document_contents[d].chunk_count,
                        content |-> document_contents[d].content]]]

NoResponse == [dataset_count |-> 0, total_search_results |-> 0, answer |-> NoAnswer,
               documents |-> <<>>]

analyze_documents_for_question(st, question, dataset_ids, max_docs, max_search_results) ==
    LET searched == _search_across_datasets(st, question, dataset_ids, max_search_results)
        search_results == searched.all_results
        relevant_collections == _identify_relevant_collections(search_results, max_docs)
        fetched == _get_document_contents(st, relevant_collections)
    IN  IF search_results = <<>>
        THEN [status |-> "no_results", search_results |-> <<>>,
              relevant_collections |-> <<>>, document_contents |-> <<>>,
              response |-> NoResponse, reqs |-> searched.reqs]
        ELSE [status |-> "ok", search_results |-> search_results,
              relevant_collections |-> relevant_collections,
              document_contents |-> fetched.document_contents,
              response |-> _generate_comprehensive_response(question, search_results,
                                                          fetched.document_contents),
              reqs |-> searched.reqs \o fetched.reqs]

(***************************************************************************)
(* Specification SpecAnalyze: calls of analyze_documents_for_question      *)
(***************************************************************************)
MaxDocs == 2

\* max_search_results: int = 20
max_search_results == 20

Questions == {<<"K">>, <<" ">>, <<"z">>}

DatasetIdLists == {<<>>, <<"dsA">>, <<"dsA", "dsB">>, <<"dsB", "dsA">>, <<"dsA", "dsA">>}

AnalyzeCallers == {<<"1">>, <<"2">>}

AnalyzeConfigs == [special_access_users : {{<<"1">>}},
                   restricted_datasets : {{}, {"dsA"}}]

InitAnalyze ==
    /\ config \in AnalyzeConfigs
    /\ store \in AnalyzeStores
    /\ pc = "idle"
    /\ locals = NoValue
    /\ requests = <<>>
    /\ result = NoValue

\* a caller has the service analyse the documents for a question; the
\* service takes no user id
AnalyzeDocumentsForQuestion ==
    \E caller \in AnalyzeCallers, question \in Questions,
       dataset_ids \in DatasetIdLists, max_docs \in 1..MaxDocs :
        LET run == analyze_documents_for_question(store, question, dataset_ids, max_docs,
                                                  max_search_results)
        IN  /\ pc = "idle"
            /\ pc' = "done"
            /\ locals' = [op |-> "analyze_documents_for_question", caller |-> caller,
                          question |-> question, dataset_ids |-> dataset_ids,
                          max_docs |-> max_docs,
                          search_results |-> run.search_results,
                          relevant_collections |-> run.relevant_collections,
                          document_contents |-> run.document_contents]
            /\ requests' = run.reqs
            /\ result' = [op |-> "analyze_documents_for_question", status |-> run.status,
                          response |-> run.response]
            /\ UNCHANGED <<config, store>>

NextAnalyze == AnalyzeDocumentsForQuestion \/ ToolReturn

SpecAnalyze == InitAnalyze /\ [][NextAnalyze]_vars

\* the store without the content of the restricted datasets: their search
\* results and the chunks of the collections these results name
WithoutRestricted(cfg, st) ==
    LET hidden == UNION {{st.hits[d][i].collection_id : i \in 1..Len(st.hits[d])} :
                            d \in cfg.restricted_datasets \cap AnalyzeDatasets}
    IN  [st EXCEPT !.hits = [d \in AnalyzeDatasets |->
                                IF d \in cfg.restricted_datasets THEN <<>> ELSE st.hits[d]],
                   !.chunks = [c \in Collections |->
                                IF c \in hidden THEN <<>> ELSE st.chunks[c]]]

\* C4: for a caller who does not match the privileged pattern the result of
\* analyze_documents_for_question does not depend on the content of the
\* restricted datasets (it is the result of the run against the store
\* without that content), and no search request is sent for a restricted
\* dataset and no chunk or detail request for a collection found in one.
C4_AnalysisIgnoresRestricted ==
    (pc = "done" /\ result.op = "analyze_documents_for_question"
        /\ ~is_special_user(config, locals.caller)) =>
        /\ \A i \in 1..Len(requests) :
              /\ requests[i].api = "search_dataset" =>
                    requests[i].datasetId \notin config.restricted_datasets
              /\ requests[i].api \in {"get_collection_detail", "get_collection_chunks_page"} =>
                    \A d \in config.restricted_datasets \cap AnalyzeDatasets :
                        \A k \in 1..Len(store.hits[d]) :
                            store.hits[d][k].collection_id # requests[i].collectionId
        /\ LET other == analyze_documents_for_question(WithoutRestricted(config, store),
                            locals.question, locals.dataset_ids, locals.max_docs,
                            max_search_results)
           IN  result.status = other.status /\ result.response = other.response

\* the places of the hits of a result map: dataset by dataset, and hit by
\* hit inside a dataset
HitPlaces(search_results) ==
    UNION {{<<d, i>> : i \in 1..Len(search_results[d].value)} : d \in 1..Len(search_results)}

PlaceBefore(p, q) == p[1] < q[1] \/ (p[1] = q[1] /\ p[2] < q[2])

HitAt(search_results, p) == search_results[p[1]].value[p[2]]

\* the sum of the score values of every hit of a collection
TotalScore(search_results, collection_id) ==
    Sum([d \in 1..Len(search_results) |->
            Sum([i \in 1..Len(search_results[d].value) |->
                    IF search_results[d].value[i].collection_id = collection_id
                    THEN Sum(search_results[d].value[i].score) ELSE 0])])

\* the place of the first hit seen of a collection
FirstSeen(search_results, collection_id) ==
    LET places == {p \in HitPlaces(search_results) :
                      HitAt(search_results, p).collection_id = collection_id}
    IN  CHOOSE p \in places : \A q \in places : p = q \/ PlaceBefore(p, q)

\* collection c1 ranks before collection c2
RanksBefore(search_results, c1, c2) ==
    \/ TotalScore(search_results, c1) > TotalScore(search_results, c2)
    \/ /\ TotalScore(search_results, c1) = TotalScore(search_results, c2)
       /\ PlaceBefore(FirstSeen(search_results, c1), FirstSeen(search_results, c2))

\* C8: the ranking holds one entry per distinct collection id, its score the
\* sum of the score values of every hit of the collection over all datasets,
\* with the dataset id, source name and excerpt of the first hit seen of the
\* collection; the entries are in descending score order, ties in
\* first-seen order, and they are exactly the first min(max_docs, number of
\* distinct collections) of that order.
C8_Ranking ==
    (pc = "done" /\ result.op = "analyze_documents_for_question" /\ result.status = "ok") =>
        LET sr == locals.search_results
            ranked == locals.relevant_collections
            ids == {HitAt(sr, p).collection_id : p \in HitPlaces(sr)}
            returned == {ranked[i].collection_id : i \in 1..Len(ranked)}
        IN  /\ Len(ranked) = Min(locals.max_docs, Cardinality(ids))
            /\ Cardinality(returned) = Len(ranked)
            /\ returned \subseteq ids
            /\ \A i \in 1..Len(ranked) :
                  LET first == FirstSeen(sr, ranked[i].collection_id)
                  IN  /\ ranked[i].relevance_score = TotalScore(sr, ranked[i].collection_id)
                      /\ ranked[i].dataset_id = sr[first[1]].key
                      /\ ranked[i].source_name = HitAt(sr, first).source_name
                      /\ ranked[i].sample_content = sample_content(HitAt(sr, first).q)
            /\ \A i, j \in 1..Len(ranked) :
                  i < j => RanksBefore(sr, ranked[i].collection_id, ranked[j].collection_id)
            /\ \A c \in ids \ returned :
                  \A i \in 1..Len(ranked) : RanksBefore(sr, ranked[i].collection_id, c)

\* a collection with hits in two datasets comes first with the sum of its
\* scores, and the third collection is cut off
C8_Witness ==
    /\ pc = "done"
    /\ result.op = "analyze_documents_for_question"
    /\ locals.dataset_ids = <<"dsA", "dsB">>
    /\ locals.max_docs = 2
    /\ store.hits["dsA"] = <<rB, rC>>
    /\ store.hits["dsB"] = <<rC, rB2, rA2>>
    /\ Len(locals.relevant_collections) = 2
    /\ locals.relevant_collections[1].collection_id = <<"c">>
    /\ locals.relevant_collections[1].relevance_score = 10
    /\ locals.relevant_collections[1].dataset_id = "dsA"
    /\ locals.relevant_collections[2].collection_id = <<"b">>
    /\ locals.relevant_collections[2].sample_content = Pad("x", ExcerptLength) \o <<".", ".", ".">>

\* C10: whenever the analysis found search hits and no paragraph of an
\* assembled document passes the keyword and length filter, the case of no
\* assembled document included, the response carries the canonical answer.
C10_CanonicalAnswer ==
    (/\ pc = "done" /\ result.op = "analyze_documents_for_question"
     /\ result.status = "ok"
     /\ \A d \in 1..Len(locals.document_contents) :
           SnippetsOf(locals.document_contents[d], question_keywords(locals.question)) = <<>>)
        => result.response.answer = NotFoundAnswer

(***************************************************************************)
(* Specification SpecAnswer: _generate_simple_answer on lists of assembled *)
(* documents                                                               *)
(*                                                                         *)
(* store.documents    the assembled documents, each with the paragraphs    *)
(*                    its content is made of                               *)
(***************************************************************************)
MaxAnswerDocs == 2

\* MinParagraphLength characters between two blanks
ParPadded == <<" ">> \o ParShort \o <<" ">>

\* MinParagraphLength + 1 characters between two blanks
ParPaddedK == <<" ">> \o ParK \o <<" ">>

\* a long paragraph without the letters k and j
ParX == Pad("x", MinParagraphLength + 1)

AssembledDocuments ==
    {[name |-> "docA", relevance_score |-> 5, paragraphs |-> <<ParK, ParShort, ParJ>>],
     [name |-> "docB", relevance_score |-> 9, paragraphs |-> <<ParJ, ParPaddedK>>],
     [name |-> "docC", relevance_score |-> 5, paragraphs |-> <<ParPadded, ParX, ParK>>],
     [name |-> "docD", relevance_score |-> 7, paragraphs |-> <<>>],
     [name |-> "docE", relevance_score |-> 7, paragraphs |-> <<ParK, ParX, ParK, ParJ>>]}

AnswerQuestions == {<<>>, <<"K">>, <<"k", " ", "J">>, <<"k", "j">>, <<"z", TAB, "x">>}

InitAnswer ==
    /\ config = [special_access_users |-> {}, restricted_datasets |-> {}]
    /\ store \in [documents : SeqsUpTo(AssembledDocuments, MaxAnswerDocs)]
    /\ pc = "idle"
    /\ locals = NoValue
    /\ requests = <<>>
    /\ result = NoValue

\* the content of a document is its paragraphs joined by blank lines
GenerateSimpleAnswer ==
    \E question \in AnswerQuestions :
        LET document_contents ==
                [d \in 1..Len(store.documents) |->
                    [name |-> store.documents[d].name,
                     relevance_score |-> store.documents[d].relevance_score,
                     content |-> join(BlankLine, store.documents[d].paragraphs)]]
        IN  /\ pc = "idle"
            /\ pc' = "done"
            /\ locals' = [op |-> "_generate_simple_answer", question |-> question,
                          document_contents |-> document_contents]
            /\ result' = [op |-> "_generate_simple_answer",
                          answer |-> _generate_simple_answer(question, document_contents)]
            /\ UNCHANGED <<config, store, requests>>

NextAnswer == GenerateSimpleAnswer \/ ToolReturn

SpecAnswer == InitAnswer /\ [][NextAnswer]_vars

\* the places of the paragraphs that pass the keyword and length filter
SurvivingPlaces(documents, question) ==
    {p \in UNION {{<<d, i>> : i \in 1..Len(documents[d].paragraphs)} : d \in 1..Len(documents)} :
        /\ \E keyword \in Range(split(lower(question))) :
              Contains(lower(documents[p[1]].paragraphs[p[2]]), keyword)
        /\ Len(strip(documents[p[1]].paragraphs[p[2]])) > MinParagraphLength}

\* paragraph p goes before paragraph q in the answer
SnippetBefore(documents, p, q) ==
    \/ documents[p[1]].relevance_score > documents[q[1]].relevance_score
    \/ /\ documents[p[1]].relevance_score = documents[q[1]].relevance_score
       /\ PlaceBefore(p, q)

\* C9: the answer is built from exactly the paragraphs that contain a
\* lower-cased whitespace-separated keyword of the question as a substring,
\* compared without case, and whose trimmed length exceeds 50; they are
\* ordered by their document's score descending, ties in document order and
\* then paragraph order; the answer shows the first 3, each with its source
\* name, and when more than 3 survive its note gives their number minus 3.
C9_SimpleAnswer ==
    (pc = "done" /\ result.op = "_generate_simple_answer") =>
        LET documents == store.documents
            surviving == SurvivingPlaces(documents, locals.question)
            rank(p) == Cardinality({q \in surviving : SnippetBefore(documents, q, p)}) + 1
            answer == result.answer
        IN  IF surviving = {} THEN answer = NotFoundAnswer
            ELSE /\ answer.kind = "snippets"
                 /\ Len(answer.shown) = Min(3, Cardinality(surviving))
                 /\ \A p \in surviving :
                       rank(p) <= 3 =>
                           answer.shown[rank(p)] =
                               [source |-> documents[p[1]].name,
                                content |-> strip(documents[p[1]].paragraphs[p[2]])]
                 /\ answer.more = IF Cardinality(surviving) > 3
                                  THEN Cardinality(surviving) - 3 ELSE 0

\* four paragraphs survive, the three of the document of higher score,
\* placed second in the list, come first, and the note counts one more
C9_Witness ==
    /\ pc = "done"
    /\ result.op = "_generate_simple_answer"
    /\ locals.question = <<"k", " ", "J">>
    /\ Len(store.documents) = 2
    /\ store.documents[1].name = "docC"
    /\ store.documents[2].name = "docE"
    /\ result.answer.kind = "snippets"
    /\ result.answer.more = 1
    /\ result.answer.shown = <<[source |-> "docE", content |-> ParK],
                               [source |-> "docE", content |-> ParK],
                               [source |-> "docE", content |-> ParJ]>>

(***************************************************************************)
(* Properties of the keyword fan-out and of the fallback of the tree tools *)
(***************************************************************************)
\* the requests of a call that carry a keyword
KeywordRequests == SelectSeq(requests, LAMBDA r : r.searchValue # <<>>)

\* the call is one of a tree tool that got as far as building a tree
TreeCallDone ==
    /\ pc = "done"
    /\ result.op \in {"get_dataset_tree", "explore_folder_contents"}
    /\ result.status \in {"ok", "empty"}

\* the places of the keywords whose request the store answers
AnsweredKeywords(keywords) ==
    {i \in 1..Len(keywords) :
        ~ApiFails(store, TreeRequest(locals.root, keywords[i], locals.max_depth))}

KeywordResponse(keywords, i) ==
    get_dataset_tree(store, TreeRequest(locals.root, keywords[i], locals.max_depth))

\* some answered keyword request returned a node
KeywordPassFound(keywords) ==
    \E i \in AnsweredKeywords(keywords) : KeywordResponse(keywords, i) # <<>>

\* C11: with N >= 1 keywords the call sends exactly N tree requests that
\* carry a keyword, one per keyword in list order, each with the root id
\* and the depth of the call; the merged forest holds each node id at most
\* once, holds every node of every answered keyword request, takes the
\* payload of a node from the first keyword in list order whose response
\* holds its id, and gives every node an empty child list.
C11_KeywordFanOut ==
    LET keywords == _parse_search_keywords(locals.search_value)
        forest == result.forest
    IN  (TreeCallDone /\ keywords # <<>>) =>
          /\ KeywordRequests = [i \in 1..Len(keywords) |->
                                  TreeRequest(locals.root, keywords[i], locals.max_depth)]
          /\ result.op = "get_dataset_tree" => requests = KeywordRequests
          /\ (result.op = "get_dataset_tree" \/ KeywordPassFound(keywords)) =>
                /\ \A a, b \in 1..Len(forest) :
                      a # b => forest[a].node.id # forest[b].node.id
                /\ \A i \in AnsweredKeywords(keywords) :
                      \A k \in 1..Len(KeywordResponse(keywords, i)) :
                          \E a \in 1..Len(forest) :
                              forest[a].node.id = KeywordResponse(keywords, i)[k].id
                /\ \A a \in 1..Len(forest) :
                      /\ forest[a].children = <<>>
                      /\ \E i \in AnsweredKeywords(keywords) :
                            \E k \in 1..Len(KeywordResponse(keywords, i)) :
                                /\ KeywordResponse(keywords, i)[k] = forest[a].node
                                /\ \A k2 \in 1..(k - 1) :
                                      KeywordResponse(keywords, i)[k2].id # forest[a].node.id
                                /\ \A i2 \in AnsweredKeywords(keywords) :
                                      i2 < i =>
                                        \A k2 \in 1..Len(KeywordResponse(keywords, i2)) :
                                            KeywordResponse(keywords, i2)[k2].id
                                                # forest[a].node.id

\* two keywords whose responses share the node dsA with different payloads:
\* the forest holds the payload of the first keyword
C11_Witness ==
    /\ pc = "done"
    /\ result.op = "get_dataset_tree"
    /\ locals.search_value = <<"k", " ", "j">>
    /\ store.search[<<"k">>] = <<nF1, nDsA>>
    /\ store.search[<<"j">>] = <<nDsA2, nDsB>>
    /\ Len(requests) = 2
    /\ result.forest = <<[node |-> nF1, depth |-> 0, children |-> <<>>],
                         [node |-> nDsA, depth |-> 0, children |-> <<>>],
                         [node |-> nDsB, depth |-> 0, children |-> <<>>]>>

\* C12: in explore_folder_contents with keywords, when the merged result of
\* the keyword pass is empty the unfiltered walk over the same folder and
\* depth is run after it and its forest, passed through the permission
\* filter for the user id the service was given, is returned; when the
\* merged result is not empty no request of a walk is sent.
C12_FallbackWalk ==
    LET keywords == _parse_search_keywords(locals.search_value)
        probe == TreeRequest(locals.root, <<>>, 1)
        walk == _build_tree_recursively(store, locals.root, locals.max_depth, 0)
    IN  (TreeCallDone /\ result.op = "explore_folder_contents" /\ keywords # <<>>) =>
          IF KeywordPassFound(keywords)
          THEN /\ requests = <<probe>> \o KeywordRequests
               /\ ~result.fallback
          ELSE /\ requests = <<probe>> \o KeywordRequests \o walk.reqs
               /\ result.forest = _apply_permission_filter(config, walk.tree, locals.userid)
               /\ result.fallback = (result.forest # <<>>)

\* the keyword k matches nothing under F1 and the children of F1 come back
C12_Witness ==
    /\ pc = "done"
    /\ result.op = "explore_folder_contents"
    /\ locals.root = "F1"
    /\ locals.search_value = <<"k">>
    /\ store.search[<<"k">>] = <<>>
    /\ result.fallback
    /\ Len(requests) > 2
    /\ result.forest # <<>>
    /\ result.forest[1].node = store.children["F1"][1]

\* C13: for an existing folder with at least one child, any keywords, a
\* depth in [1,10], any user and any store, get_knowledge_base_tree rooted
\* at the folder and explore_folder_contents on the folder give the same
\* forest.
C13_ListTreeEqualsExplore ==
    (/\ TreeCallDone
     /\ result.op = "explore_folder_contents"
     /\ locals.deep >= LowestDeep /\ locals.deep <= HighestDeep) =>
        result.forest = get_knowledge_base_tree(config, store, locals.root,
                            locals.search_value, locals.deep, locals.userid).forest

(***************************************************************************)
(* Properties of the search tools                                          *)
(***************************************************************************)
SearchCallDone ==
    /\ pc = "done"
    /\ result.op \in {"search_dataset", "multi_dataset_search"}

\* C14: for every query, every limit >= 1 and every response of the store
\* the list of hits the search on one dataset returns holds at most
\* `limit` hits.  (Stated for the queries of one term; the lists of the
\* queries of several terms are cut to `limit`.)
C14_AtMostLimitHits ==
    (SearchCallDone /\ Len(split(locals.text)) = 1) =>
        \A i \in 1..Len(result.entries) : Len(result.entries[i].hits) <= locals.limit

\* the statuses by which a search tool rejects its arguments
InvalidArgumentStatuses == {"no_dataset_id", "no_query", "limit_out_of_range",
                            "too_many_datasets"}

\* C15: a multi_dataset_search call that names more than 5 dataset ids is
\* rejected before any search request is sent.
C15_AtMostFiveDatasets ==
    (SearchCallDone /\ result.op = "multi_dataset_search" /\ Len(locals.dataset_ids) > 5) =>
        /\ result.status \in InvalidArgumentStatuses
        /\ requests = <<>>

\* the terms a search on one dataset sends to the store, one request each
TermsSent(text) ==
    IF text # <<>> /\ Contains(strip(text), <<" ">>) THEN split(text) ELSE <<text>>

\* the search of the dataset fails upstream: one of its requests fails
FailsUpstream(dataset_id, text) ==
    \E i \in 1..Len(TermsSent(text)) :
        SearchFails(store, SearchRequest(dataset_id, TermsSent(text)[i], locals.limit))

\* C16: whichever searches of a multi_dataset_search fail upstream, the
\* result holds one entry per requested dataset in request order; the
\* entry of a failed dataset is an error entry, and the entry of any other
\* dataset holds the hits it holds when no search fails.
C16_FailedBranchesMarked ==
    (SearchCallDone /\ result.op = "multi_dataset_search" /\ result.status = "summary") =>
        /\ Len(result.entries) = Len(locals.dataset_ids)
        /\ \A i \in 1..Len(locals.dataset_ids) :
              LET entry == result.entries[i]
                  dataset_id == locals.dataset_ids[i]
                  unfailed == search_knowledge_base(config, [store EXCEPT !.fail = {}],
                                  dataset_id, locals.text, locals.limit, None)
              IN  /\ entry.dataset_id = dataset_id
                  /\ IF FailsUpstream(dataset_id, locals.text)
                     THEN entry.status = "search_error" /\ entry.hits = <<>>
                     ELSE entry.status = unfailed.status /\ entry.hits = unfailed.hits

\* the search of dsA fails and the entry of dsB holds its hits
C16_Witness ==
    /\ pc = "done"
    /\ result.op = "multi_dataset_search"
    /\ locals.dataset_ids = <<"dsA", "dsB">>
    /\ locals.text = <<"k">>
    /\ store.fail = {<<"dsA", <<"k">>>>}
    /\ Len(result.entries) = 2
    /\ result.entries[1].status = "search_error"
    /\ result.entries[2].status = "ok"
    /\ result.entries[2].hits # <<>>

\* C17: a search_dataset or multi_dataset_search call whose query is empty
\* or only whitespace is rejected and sends no request to the store.
C17_BlankQueryRejected ==
    (SearchCallDone /\ strip(locals.text) = <<>>) =>
        /\ result.status \in InvalidArgumentStatuses
        /\ requests = <<>>

\* a depth below 1 taken as 1, a depth above 10 as 10
ClampDeep(deep) ==
    IF deep < LowestDeep THEN LowestDeep
    ELSE IF deep > HighestDeep THEN HighestDeep ELSE deep

\* C18: for every requested depth the tree tools explore with the requested
\* depth clamped into [1,10]: the call sends the requests and returns the
\* forest of the call with the clamped depth.
C18_DepthClamped ==
    (pc = "done" /\ result.op \in {"get_dataset_tree", "explore_folder_contents"}) =>
        LET clamped ==
                IF result.op = "get_dataset_tree"
                THEN get_kb_tree(config, store, locals.search_value, ClampDeep(locals.deep))
                ELSE explore_folder_contents_tool(config, store, locals.root,
                         locals.search_value, ClampDeep(locals.deep))
        IN  /\ locals.max_depth = ClampDeep(locals.deep)
            /\ requests = clamped.reqs
            /\ result.forest = clamped.forest

(***************************************************************************)
(* Specification SpecTools: the five tools of main.py, each against the    *)
(* part of the store it reads                                              *)
(***************************************************************************)
IsTreeStore == "children" \in DOMAIN store

IsSearchStore == "honours_limit" \in DOMAIN store

IsDocStore == "fail_offset" \in DOMAIN store

\* the tools hand no user id to the services, so the restricted set plays no
\* part in what they do: it is left empty here
InitTools ==
    /\ InitTree \/ InitSearch \/ InitDoc
    /\ config.restricted_datasets = {}

NextTools ==
    \/ IsTreeStore /\ GetKbTree
    \/ IsTreeStore /\ ExploreFolderContents
    \/ IsSearchStore /\ SearchKb
    \/ IsSearchStore /\ MultiDatasetSearch
    \/ IsDocStore /\ ViewCollectionContent
    \/ IsDocStore /\ GetCollectionDetail
    \/ IsDocStore /\ GetChunksPage
    \/ IsDocStore /\ FormatCollectionContent
    \/ ToolReturn

SpecTools == InitTools /\ [][NextTools]_vars

\* what a tool returns: a result, or the description of a failure
ResultStatuses == {"ok", "empty", "no_results", "no_chunks", "summary"}

FailureStatuses == {"cannot_access", "folder_not_found", "permission_denied",
                    "search_error", "error", "no_dataset_id", "no_query",
                    "limit_out_of_range"}

\* some request of the call failed
SomeRequestFailed ==
    \E i \in 1..Len(requests) :
        \/ IsTreeStore /\ ApiFails(store, requests[i])
        \/ IsSearchStore /\ SearchFails(store, requests[i])
        \/ IsDocStore /\ requests[i].api = "get_collection_chunks_page"
                      /\ PageFails(store, requests[i])

\* C19: whichever remote calls fail during a tool operation, the tool
\* returns a result or the description of a failure; no exception leaves
\* the tool function, and a call that was started is never left without a
\* next step.
C19_NoExceptionLeavesTool ==
    /\ pc = "done" =>
          /\ result.status \in ResultStatuses \cup FailureStatuses
          /\ result.op = "multi_dataset_search" =>
                \A i \in 1..Len(result.entries) :
                    result.entries[i].status \in ResultStatuses \cup FailureStatuses
          /\ (SomeRequestFailed /\ result.op \in {"search_dataset", "view_collection_content"}) =>
                result.status \in FailureStatuses
    /\ pc \in {"get_detail", "get_chunks", "get_link"} => ENABLED NextDoc

\* the request of a search_dataset call failed and the tool returned the
\* description of the error
C19_Witness ==
    /\ pc = "done"
    /\ result.op = "search_dataset"
    /\ Len(requests) = 1
    /\ IsSearchStore
    /\ SearchFails(store, requests[1])
    /\ result.status = "search_error"

(***************************************************************************)
(* Specification SpecFanOut: the branches of asyncio.gather one by one     *)
(*                                                                         *)
(* The keyword fan-out of the tree service and the dataset fan-out of      *)
(* multi_dataset_search create one task per keyword or dataset id and      *)
(* gather them.  The branches share no variable and the store is fixed, so *)
(* a branch is one step here: it completes at any time after the start, in *)
(* any order with the other branches.                                      *)
(*                                                                         *)
(* locals.tasks    the keyword or dataset id of every task, in task order  *)
(* locals.results  the result of every task, Pending until it completes    *)
(* locals.arrival  the places of the tasks in the order they completed in  *)
(***************************************************************************)
MaxTasks == 2

Pending == [state |-> "pending"]

FanOutSearchValues == {<<"k">>, <<"k", " ", "j">>, <<"j", " ", "k">>}

FanOutQueries == {<<"k">>, <<"k", " ", "j">>}

InitFanOut ==
    /\ InitTree \/ InitSearch
    /\ config.restricted_datasets = {}

\* mutant: the results come in the order the branches completed in
gather_inArrivalOrder(results, arrival) == [k \in 1..Len(arrival) |-> results[arrival[k]]]

\* results = await asyncio.gather(*tasks): the results in task order
gather(results, arrival) == results

\* get_knowledge_base_tree with keywords: the tasks of the fan-out are made
StartKeywordFanOut ==
    \E search_value \in FanOutSearchValues, deep \in Depths :
        LET keywords == _parse_search_keywords(search_value)
        IN  /\ pc = "idle"
            /\ IsTreeStore
            /\ pc' = "gather"
            /\ locals' = [op |-> "get_dataset_tree", root |-> default_parent_id,
                          search_value |-> search_value, max_depth |-> deep,
                          tasks |-> keywords,
                          results |-> [i \in 1..Len(keywords) |-> Pending],
                          arrival |-> <<>>]
            /\ UNCHANGED <<config, store, requests, result>>

\* multi_dataset_search with valid arguments: the tasks are made
StartDatasetFanOut ==
    \E dataset_ids \in SeqsUpTo(SearchDatasets, MaxTasks) \ {<<>>},
       query \in FanOutQueries, limit_per_dataset \in Limits :
        /\ pc = "idle"
        /\ IsSearchStore
        /\ pc' = "gather"
        /\ locals' = [op |-> "multi_dataset_search", text |-> query,
                      limit |-> limit_per_dataset, tasks |-> dataset_ids,
                      results |-> [i \in 1..Len(dataset_ids) |-> Pending],
                      arrival |-> <<>>]
        /\ UNCHANGED <<config, store, requests, result>>

\* a task that has not completed yet completes
BranchCompletes ==
    /\ pc = "gather"
    /\ \E i \in 1..Len(locals.tasks) :
        /\ locals.results[i] = Pending
        /\ IF locals.op = "get_dataset_tree"
           THEN /\ locals' = [locals EXCEPT
                        !.results[i] = [state |-> "returned",
                                        value |-> search_single_keyword(store, locals.root,
                                                      locals.tasks[i], locals.max_depth)],
                        !.arrival = Append(@, i)]
                /\ requests' = Append(requests, TreeRequest(locals.root, locals.tasks[i],
                                                            locals.max_depth))
           ELSE LET r == search_single_dataset(config, store, locals.tasks[i], locals.text,
                                               locals.limit)
                IN  /\ locals' = [locals EXCEPT
                            !.results[i] = [state |-> "returned",
                                            value |-> [dataset_id |-> r.dataset_id,
                                                       status |-> r.status,
                                                       hits |-> r.hits]],
                            !.arrival = Append(@, i)]
                    /\ requests' = requests \o r.reqs
    /\ UNCHANGED <<config, store, pc, result>>

\* every task has completed: gather returns and the results are merged
GatherReturns ==
    /\ pc = "gather"
    /\ \A i \in 1..Len(locals.tasks) : locals.results[i] # Pending
    /\ LET results == gather(locals.results, locals.arrival)
           values == [k \in 1..Len(results) |-> results[k].value]
       IN  result' = IF locals.op = "get_dataset_tree"
                     THEN [op |-> locals.op,
                           status |-> IF MergeNodes(Flatten(values), <<>>) = <<>>
                                      THEN "empty" ELSE "ok",
                           forest |-> MergeNodes(Flatten(values), <<>>)]
                     ELSE [op |-> locals.op, status |-> "summary", entries |-> values]
    /\ pc' = "done"
    /\ UNCHANGED <<config, store, locals, requests>>

\* search_knowledge_base with a text of several terms: _search_with_keywords
\* takes the branch of the loop over the terms
StartTermSearch ==
    \E dataset_id \in SearchDatasets, text \in FanOutSearchValues,
       limit \in Limits :
        /\ pc = "idle"
        /\ IsSearchStore
        /\ Contains(strip(text), <<" ">>)
        /\ pc' = "term_request"
        /\ locals' = [op |-> "search_dataset", dataset_id |-> dataset_id,
                      text |-> text, limit |-> limit,
                      tasks |-> SelectSeq([i \in 1..Len(split(text)) |->
                                              strip(split(text)[i])],
                                          LAMBDA kw : kw # <<>>),
                      results |-> <<>>, all_results |-> <<>>, seen_ids |-> {},
                      merged |-> 0]
        /\ UNCHANGED <<config, store, requests, result>>

\* results = await self.api_client.search_dataset(dataset_id, keyword, limit)
\* for the next term of the loop; a failure leaves the loop and is caught in
\* search_knowledge_base
SearchTerm ==
    /\ pc = "term_request"
    /\ LET req == SearchRequest(locals.dataset_id, locals.tasks[locals.merged + 1],
                                locals.limit)
       IN  /\ requests' = Append(requests, req)
           /\ IF SearchFails(store, req)
              THEN /\ pc' = "done"
                   /\ result' = [op |-> locals.op, status |-> "search_error",
                                  hits |-> <<>>]
                   /\ UNCHANGED locals
              ELSE /\ pc' = "term_merge"
                   /\ locals' = [locals EXCEPT !.results = search_dataset(store, req)]
                   /\ UNCHANGED result
    /\ UNCHANGED <<config, store>>

\* the inner loop over the response of the term: new hits are appended
MergeTerm ==
    /\ pc = "term_merge"
    /\ LET m == MergeResults(locals.results, [all_results |-> locals.all_results,
                                              seen_ids |-> locals.seen_ids])
       IN  locals' = [locals EXCEPT !.all_results = m.all_results,
                                     !.seen_ids = m.seen_ids,
                                     !.results = <<>>,
                                     !.merged = @ + 1]
    /\ pc' = IF locals.merged + 1 = Len(locals.tasks) THEN "term_rank" ELSE "term_request"
    /\ UNCHANGED <<config, store, requests, result>>

\* after the loop: sort by score, cut to the limit, return
RankTerms ==
    /\ pc = "term_rank"
    /\ LET hits == Take(SortByScoreDesc(locals.all_results, <<>>), locals.limit)
       IN  result' = [op |-> locals.op,
                      status |-> IF hits = <<>> THEN "no_results" ELSE "ok",
                      hits |-> hits]
    /\ pc' = "done"
    /\ UNCHANGED <<config, store, locals, requests>>

NextFanOut == StartKeywordFanOut \/ StartDatasetFanOut \/ BranchCompletes
                 \/ GatherReturns \/ StartTermSearch \/ SearchTerm \/ MergeTerm
                 \/ RankTerms \/ ToolReturn

SpecFanOut == InitFanOut /\ [][NextFanOut]_vars

\* C20: for a fixed store, the forest of the keyword fan-out and the result
\* of multi_dataset_search are the same for every order in which the
\* branches complete: they are what the store and the arguments determine.
C20_CompletionOrderIrrelevant ==
    (pc = "done" /\ result.op \in {"get_dataset_tree", "multi_dataset_search"}) =>
        IF result.op = "get_dataset_tree"
        THEN result.forest = get_kb_tree(config, store, locals.search_value,
                                         locals.max_depth).forest
        ELSE result.entries = multi_dataset_search(config, store, locals.tasks,
                                                   locals.text, locals.limit).entries

\* the branch of the second keyword completed first, and the payload of the
\* node both responses hold is the one of the first keyword
C20_Witness ==
    /\ pc = "done"
    /\ result.op = "get_dataset_tree"
    /\ locals.tasks = <<<<"k">>, <<"j">>>>
    /\ locals.arrival = <<2, 1>>
    /\ store.search[<<"k">>] = <<nF1, nDsA>>
    /\ store.search[<<"j">>] = <<nDsA2, nDsB>>
    /\ result.forest[2].node = nDsA

(***************************************************************************)
(* Properties of the unfiltered walk                                       *)
(***************************************************************************)
\* the call walked the tree without a filter text and with a depth bound of
\* at least one
UnfilteredWalkDone ==
    /\ TreeCallDone
    /\ _parse_search_keywords(locals.search_value) = <<>>
    /\ locals.max_depth >= 1

\* the requests of the walk: explore_folder_contents sends its probe first
WalkRequests ==
    IF result.op = "explore_folder_contents" THEN Tail(requests) ELSE requests

\* the nodes of the forest are at the levels their depth fields say, all
\* below D; only a folder below level D-1 has children
RECURSIVE WellLevelled(_, _, _)
WellLevelled(forest, k, D) ==
    \A i \in 1..Len(forest) :
        /\ forest[i].depth = k
        /\ k < D
        /\ forest[i].node.type = "dataset" => forest[i].children = <<>>
        /\ forest[i].children # <<>> => (forest[i].node.type = "folder" /\ k < D - 1)
        /\ WellLevelled(forest[i].children, k + 1, D)

\* the ids of the folders of the forest at a level below D-1, one entry for
\* every place a folder is at
RECURSIVE ExpandedFolders(_, _, _)
ExpandedFolders(forest, k, D) ==
    Flatten([i \in 1..Len(forest) |->
                (IF forest[i].node.type = "folder" /\ k < D - 1
                 THEN <<forest[i].node.id>> ELSE <<>>)
                \o ExpandedFolders(forest[i].children, k + 1, D)])

\* C21: in the unfiltered walk with depth bound D >= 1 every request asks
\* for depth 1 with an empty filter; a node at level k is in the result
\* only if k < D; children are requested only for folders at a level below
\* D-1, once for every place such a folder is at; a dataset node has an
\* empty child list; so the walk sends a bounded number of requests.
C21_BoundedWalk ==
    UnfilteredWalkDone =>
        LET D == locals.max_depth
            expanded == ExpandedFolders(result.forest, 0, D)
        IN  /\ \A i \in 1..Len(WalkRequests) :
                  /\ WalkRequests[i].deep = 1
                  /\ WalkRequests[i].searchValue = <<>>
            /\ WellLevelled(result.forest, 0, D)
            /\ WalkRequests[1].parentId = locals.root
            /\ Len(WalkRequests) = 1 + Len(expanded)
            /\ \A i \in 2..Len(WalkRequests) :
                  \E j \in 1..Len(expanded) : expanded[j] = WalkRequests[i].parentId

\* the folder F1 is listed among its own children: with depth bound 2 the
\* walk asks for the children of the root and of F1 and stops
C21_Witness ==
    /\ UnfilteredWalkDone
    /\ result.op = "get_dataset_tree"
    /\ locals.max_depth = 2
    /\ store.children["F1"] = <<nF1, nDsA>>
    /\ Len(requests) = 2
    /\ result.forest = <<[node |-> nF1, depth |-> 0,
                          children |-> <<[node |-> nF1, depth |-> 1, children |-> <<>>],
                                         [node |-> nDsA, depth |-> 1, children |-> <<>>]>>]>>

\* the store of the call with every failing tree request answered by an
\* empty list instead
HealedStore ==
    [children |-> [p \in DOMAIN store.children |->
                      IF ApiFails(store, TreeRequest(p, <<>>, 1))
                      THEN <<>> ELSE store.children[p]],
     search |-> [kw \in DOMAIN store.search |->
                      IF ApiFails(store, TreeRequest(locals.root, kw, locals.max_depth))
                      THEN <<>> ELSE store.search[kw]],
     fail |-> {}]

\* the folders of the forest, at any level, whose children the walk asked
\* for in vain
RECURSIVE FailedFolders(_, _, _)
FailedFolders(forest, k, D) ==
    UNION {(IF /\ forest[i].node.type = "folder"
               /\ k < D - 1
               /\ ApiFails(store, TreeRequest(forest[i].node.id, <<>>, 1))
            THEN {forest[i]} ELSE {})
           \cup FailedFolders(forest[i].children, k + 1, D) : i \in 1..Len(forest)}

\* C22: a failed tree request affects only its own branch.  The forest of
\* a call is the one the same call gives on the store that answers every
\* failing request with an empty list: a failed keyword request adds no
\* node and the nodes of the other keywords are merged and returned; a
\* folder whose children could not be fetched stays in the result with an
\* empty child list and its siblings and their subtrees are explored.
C22_FailureStaysInBranch ==
    TreeCallDone =>
        /\ result.forest =
              IF result.op = "get_dataset_tree"
              THEN get_kb_tree(config, HealedStore, locals.search_value, locals.deep).forest
              ELSE explore_folder_contents_tool(config, HealedStore, locals.root,
                                                locals.search_value, locals.deep).forest
        /\ UnfilteredWalkDone =>
              /\ \A f \in FailedFolders(result.forest, 0, locals.max_depth) :
                    f.children = <<>>
              /\ ~ApiFails(store, WalkRequests[1]) =>
                    [i \in 1..Len(result.forest) |-> result.forest[i].node]
                        = get_dataset_tree(store, WalkRequests[1])

\* the request for the children of F1 fails: F1 is in the result without
\* children and its sibling F2 is explored
C22_Witness ==
    /\ UnfilteredWalkDone
    /\ result.op = "get_dataset_tree"
    /\ ApiFails(store, TreeRequest("F1", <<>>, 1))
    /\ store.children["F1"] # <<>>
    /\ result.forest = <<[node |-> nF1, depth |-> 0, children |-> <<>>],
                         [node |-> nF2, depth |-> 0,
                          children |-> <<[node |-> nDsB, depth |-> 1, children |-> <<>>]>>]>>

(***************************************************************************)
(* Properties of the sub-searches of a search with several terms           *)
(***************************************************************************)
\* the call is one of search_dataset whose text holds several terms
\* separated by blanks
SeveralTermsSearched ==
    /\ pc = "done"
    /\ result.op = "search_dataset"
    /\ Contains(strip(locals.text), <<" ">>)

\* the store of the call with every failing sub-search of the dataset
\* answered by an empty list instead
HealedSearchStore(dataset_id) ==
    [hits |-> [t \in DOMAIN store.hits |->
                  IF <<dataset_id, t>> \in store.fail THEN <<>> ELSE store.hits[t]],
     honours_limit |-> store.honours_limit,
     fail |-> {}]

\* C23: in a search on one dataset with several terms, when the store fails
\* on the sub-search of one term the sub-searches of the other terms are
\* still sent and the hits of the terms that succeeded are returned.
C23_TermFailureIsolated ==
    SeveralTermsSearched =>
        LET dataset_id == locals.dataset_ids[1]
            expected == search_kb(config, HealedSearchStore(dataset_id), dataset_id,
                                  locals.text, locals.limit)
        IN  /\ requests = expected.reqs
            /\ result.entries[1].hits = expected.hits

(***************************************************************************)
(* Specification SpecFilter: TreeService._apply_permission_filter applied  *)
(* for a user to the forests the service builds                            *)
(***************************************************************************)
InitFilter == InitTree

\* the filter is given a forest of the walk or of the keyword fan-out and
\* the id of a user
ApplyPermissionFilter ==
    \E parent_id \in ParentIds, search_value \in SearchValues,
       deep \in 1..MaxDeep, userid \in TreeCallers :
        LET keywords == _parse_search_keywords(search_value)
            built == IF keywords # <<>>
                     THEN _build_tree_with_concurrent_search(store, parent_id, keywords, deep)
                     ELSE _build_tree_recursively(store, parent_id, deep, 0)
        IN  /\ pc = "idle"
            /\ pc' = "done"
            /\ locals' = [op |-> "_apply_permission_filter",
                          tree_structure |-> built.tree, userid |-> userid]
            /\ requests' = built.reqs
            /\ result' = [op |-> "_apply_permission_filter",
                          forest |-> _apply_permission_filter(config, built.tree, userid)]
            /\ UNCHANGED <<config, store>>

NextFilter == ApplyPermissionFilter \/ ToolReturn

SpecFilter == InitFilter /\ [][NextFilter]_vars

\* the node is one the user may see: any folder, and a dataset the user
\* has access to
VisibleTo(node, userid) ==
    node.type = "dataset" => has_dataset_access(config, userid, node.id)

\* out is the forest before with the dataset nodes the user may not see
\* taken out at every level and nothing else changed
RECURSIVE FilteredExactly(_, _, _)
FilteredExactly(before, out, userid) ==
    LET kept == SelectSeq(before, LAMBDA nd : VisibleTo(nd.node, userid))
    IN  /\ Len(out) = Len(kept)
        /\ \A i \in 1..Len(kept) :
              /\ out[i].node = kept[i].node
              /\ out[i].depth = kept[i].depth
              /\ FilteredExactly(kept[i].children, out[i].children, userid)

\* the number of folder nodes of a forest, at any level
RECURSIVE FolderCount(_)
FolderCount(forest) ==
    IF forest = <<>> THEN 0
    ELSE (IF Head(forest).node.type = "folder" THEN 1 ELSE 0)
         + FolderCount(Head(forest).children) + FolderCount(Tail(forest))

\* C24: for a non-empty user id the permission filter removes exactly the
\* dataset nodes the user may not see: no folder is removed, no dataset the
\* user may see is removed, the retained nodes keep their order among
\* their siblings and their depth field, and filtering a second time
\* changes nothing.
C24_FilterRemovesExactlyHidden ==
    (pc = "done" /\ result.op = "_apply_permission_filter") =>
        /\ FilteredExactly(locals.tree_structure, result.forest, locals.userid)
        /\ FolderCount(result.forest) = FolderCount(locals.tree_structure)
        /\ DatasetIdsOf(result.forest) =
              {id \in DatasetIdsOf(locals.tree_structure) :
                  has_dataset_access(config, locals.userid, id)}
        /\ _apply_permission_filter(config, result.forest, locals.userid) = result.forest

\* the restricted dataset dsA is taken out from under the folder F1, which
\* stays with its other child, the folder F2 and the dataset dsB below it
C24_Witness ==
    /\ pc = "done"
    /\ result.op = "_apply_permission_filter"
    /\ config.restricted_datasets = {"dsA"}
    /\ locals.userid = <<"2">>
    /\ locals.tree_structure # <<>>
    /\ locals.tree_structure[1].node = nF1
    /\ Len(locals.tree_structure[1].children) = 2
    /\ locals.tree_structure[1].children[1].node = nDsA
    /\ result.forest[1] =
          [node |-> nF1, depth |-> 0,
           children |-> <<[node |-> nF2, depth |-> 1,
                           children |-> <<[node |-> nDsB, depth |-> 2,
                                           children |-> <<>>]>>]>>]

(***************************************************************************)
(* Properties of the order of dispatch and merge in the fan-outs           *)
(***************************************************************************)
\* the loop over the terms has merged the response of at least one term
SomeTermMerged ==
    /\ pc \in {"term_request", "term_merge", "term_rank", "done"}
    /\ locals.op = "search_dataset"
    /\ locals.merged > 0

\* the steps of the loop over the terms give what the search gives
TermStepsRefineSearch ==
    (pc = "done" /\ result.op = "search_dataset") =>
        LET r == search_kb(config, store, locals.dataset_id, locals.text, locals.limit)
        IN  /\ result.status = r.status
            /\ result.hits = r.hits
            /\ requests = r.reqs

\* C25: in every fan-out all branch requests are dispatched before any
\* branch result is merged, and no merge, dedup or rank step runs until
\* every branch of the fan-out has settled.
C25_MergeAfterAllDispatched ==
    /\ (pc = "done" /\ result.op \in {"get_dataset_tree", "multi_dataset_search"}) =>
          \A i \in 1..Len(locals.tasks) : locals.results[i] # Pending
    /\ SomeTermMerged => Len(requests) = Len(locals.tasks)

(***************************************************************************)
(* Specification SpecGather: the search stage of the analysis,             *)
(* DocumentAnalysisService._search_across_datasets, on stores whose        *)
(* response depends on the text of the request                             *)
(***************************************************************************)
GatherTexts == {<<"k">>, <<"j">>, <<"k", " ", "j">>}

GatherStores ==
    [hits_by_text : [AnalyzeDatasets -> [GatherTexts -> {<<>>, <<rA1, rA2>>, <<rB, rC>>}]],
     search_fail : {{}, {"dsA"}}]

InitGather ==
    /\ config \in AnalyzeConfigs
    /\ config.restricted_datasets = {}
    /\ store \in GatherStores
    /\ pc = "idle"
    /\ locals = NoValue
    /\ requests = <<>>
    /\ result = NoValue

\* step 1 of analyze_documents_for_question
GatherHits ==
    \E question \in GatherTexts, dataset_ids \in DatasetIdLists :
        LET r == _search_across_datasets(store, question, dataset_ids, max_search_results)
        IN  /\ pc = "idle"
            /\ pc' = "done"
            /\ locals' = [op |-> "_search_across_datasets", question |-> question,
                          dataset_ids |-> dataset_ids]
            /\ requests' = r.reqs
            /\ result' = [op |-> "_search_across_datasets",
                          search_results |-> r.all_results]
            /\ UNCHANGED <<config, store>>

NextGather == GatherHits \/ ToolReturn

SpecGather == InitGather /\ [][NextGather]_vars

\* the hits the analysis holds for a dataset after the search stage
GatheredFor(dataset_id) ==
    IF \E i \in 1..Len(result.search_results) : result.search_results[i].key = dataset_id
    THEN result.search_results[CHOOSE i \in 1..Len(result.search_results) :
                                  result.search_results[i].key = dataset_id].value
    ELSE <<>>

\* what the store holds for one dataset, as the store of a search on it
AsSearchStore(dataset_id) ==
    [hits |-> store.hits_by_text[dataset_id],
     honours_limit |-> TRUE,
     fail |-> IF dataset_id \in store.search_fail
              THEN {<<dataset_id, t>> : t \in GatherTexts} ELSE {}]

\* C26: the hits the analysis gathers for a dataset are those the search on
\* one dataset returns for it with the question as text and
\* max_search_results as limit: one sub-search per term, duplicates
\* dropped, sorted by total score, cut to the limit.
C26_GatherIsDatasetSearch ==
    (pc = "done" /\ result.op = "_search_across_datasets") =>
        \A i \in 1..Len(locals.dataset_ids) :
            LET dataset_id == locals.dataset_ids[i]
            IN  GatheredFor(dataset_id) =
                    _search_with_keywords(AsSearchStore(dataset_id), dataset_id,
                                          locals.question, max_search_results).hits

\* the same for questions of one term
GatherOfOneTerm ==
    (pc = "done" /\ result.op = "_search_across_datasets"
        /\ Len(split(locals.question)) = 1) =>
        \A i \in 1..Len(locals.dataset_ids) :
            LET dataset_id == locals.dataset_ids[i]
            IN  GatheredFor(dataset_id) =
                    _search_with_keywords(AsSearchStore(dataset_id), dataset_id,
                                          locals.question, max_search_results).hits

\* C27: in the summary of multi_dataset_search the reported number of
\* successful searches is the number of requested datasets whose search did
\* not fail upstream.
C27_SuccessCount ==
    (SearchCallDone /\ result.op = "multi_dataset_search" /\ result.status = "summary") =>
        result.successful_searches =
            Cardinality({i \in 1..Len(locals.dataset_ids) :
                            ~FailsUpstream(locals.dataset_ids[i], locals.text)})

\* the same when no search fails upstream
SuccessCountWithoutFailure ==
    (SearchCallDone /\ result.op = "multi_dataset_search" /\ result.status = "summary"
        /\ store.fail = {}) =>
        result.successful_searches = Len(locals.dataset_ids)

\* the hits of the responses to the sub-searches of the call
RespondedHits ==
    LET dataset_id == locals.dataset_ids[1]
        terms == TermsSent(locals.text)
    IN  UNION {Range(search_dataset(store, SearchRequest(dataset_id, terms[i], locals.limit))) :
                  i \in 1..Len(terms)}

\* C28: in the merge of a search with several terms a hit is dropped as a
\* duplicate only if an earlier hit has the same hit id and the same
\* collection id: when the responses hold no more different (id,
\* collection id) pairs than the limit, every pair is in the result.
C28_DedupByIdAndCollection ==
    (SeveralTermsSearched /\ ~FailsUpstream(locals.dataset_ids[1], locals.text)) =>
        LET pairs == {<<h.id, h.collection_id>> : h \in RespondedHits}
        IN  Cardinality(pairs) <= locals.limit =>
                \A p \in pairs :
                    \E k \in 1..Len(result.entries[1].hits) :
                        /\ result.entries[1].hits[k].id = p[1]
                        /\ result.entries[1].hits[k].collection_id = p[2]

\* the same for responses without hX and hY, whose ids and collection ids
\* joined by "_" agree
DedupWithoutCollidingKeys ==
    (/\ SeveralTermsSearched
     /\ ~FailsUpstream(locals.dataset_ids[1], locals.text)
     /\ ~({hX, hY} \subseteq RespondedHits)) =>
        LET pairs == {<<h.id, h.collection_id>> : h \in RespondedHits}
        IN  Cardinality(pairs) <= locals.limit =>
                \A p \in pairs :
                    \E k \in 1..Len(result.entries[1].hits) :
                        /\ result.entries[1].hits[k].id = p[1]
                        /\ result.entries[1].hits[k].collection_id = p[2]

\* the store lists a folder of this id under some parent
FolderExists(folder_id) ==
    \E p \in DOMAIN store.children : \E i \in 1..Len(store.children[p]) :
        /\ store.children[p][i].id = folder_id
        /\ store.children[p][i].type = "folder"

\* C29: explore_folder_contents returns the folder-not-found failure if and
\* only if the folder is absent from the store: an existing folder without
\* children passes the validation and gives an empty forest.  (Stated for
\* calls whose validation request the store answers.)
C29_NotFoundIffAbsent ==
    (/\ pc = "done"
     /\ result.op = "explore_folder_contents"
     /\ ~ApiFails(store, TreeRequest(locals.root, <<>>, 1))) =>
        (result.status = "folder_not_found") <=> ~FolderExists(locals.root)

\* the same for folders that are absent or have a child
NotFoundOfAbsentFolder ==
    (/\ pc = "done"
     /\ result.op = "explore_folder_contents"
     /\ ~ApiFails(store, TreeRequest(locals.root, <<>>, 1))
     /\ (FolderExists(locals.root) => store.children[locals.root] # <<>>)) =>
        (result.status = "folder_not_found") <=> ~FolderExists(locals.root)

(***************************************************************************)
(* Specification SpecSession: get_parent_id_from_context of main.py        *)
(*                                                                         *)
(* store     SESSION_PARENT_IDS: the parent id kept for each session id,   *)
(*           None for a session id that is not a key                       *)
(* requests  the calls so far: the session id of the context and the       *)
(*           parentId parameter of the URL, None when there is none        *)
(***************************************************************************)
MaxCalls == 3

SessionIds == {"s1", "s2"}

\* the parentId of the URL: no parameter or no HTTP request, an empty one,
\* a blank one, ids, an id behind a blank
UrlParentIds == {None, <<>>, <<" ">>, <<"a">>, <<"b">>, <<" ", "a">>}

\* mutant: a call without a parentId in the URL sets the default again
get_parent_id_from_context_defaultWithoutUrl(sessions, session_id, url_parent_id) ==
    IF url_parent_id # None /\ strip(url_parent_id) # <<>>
    THEN [value |-> strip(url_parent_id),
          sessions |-> [sessions EXCEPT ![session_id] = strip(url_parent_id)]]
    ELSE [value |-> <<default_parent_id>>,
          sessions |-> [sessions EXCEPT ![session_id] = <<default_parent_id>>]]

\* get_parent_id_from_context: the value returned and SESSION_PARENT_IDS
\* after the call
get_parent_id_from_context(sessions, session_id, url_parent_id) ==
    LET current_url_parent_id ==
            IF url_parent_id # None /\ url_parent_id # <<>> /\ strip(url_parent_id) # <<>>
            THEN strip(url_parent_id) ELSE None
        stored_parent_id == sessions[session_id]
    IN  IF current_url_parent_id # None
        THEN IF stored_parent_id # current_url_parent_id
             THEN [value |-> current_url_parent_id,
                   sessions |-> [sessions EXCEPT ![session_id] = current_url_parent_id]]
             ELSE [value |-> stored_parent_id, sessions |-> sessions]
        ELSE IF sessions[session_id] # None
        THEN [value |-> sessions[session_id], sessions |-> sessions]
        ELSE [value |-> <<default_parent_id>>,
              sessions |-> [sessions EXCEPT ![session_id] = <<default_parent_id>>]]

InitSession ==
    /\ config \in TreeConfigs
    /\ config.restricted_datasets = {}
    /\ store = [s \in SessionIds |-> None]
    /\ pc = "idle"
    /\ locals = NoValue
    /\ requests = <<>>
    /\ result = NoValue

\* a tool call of a session reads its parent id
GetParentIdFromContext ==
    \E session_id \in SessionIds, url_parent_id \in UrlParentIds :
        LET r == get_parent_id_from_context(store, session_id, url_parent_id)
        IN  /\ Len(requests) < MaxCalls
            /\ store' = r.sessions
            /\ requests' = Append(requests, [session_id |-> session_id,
                                             parentId |-> url_parent_id])
            /\ locals' = [op |-> "get_parent_id_from_context",
                          session_id |-> session_id, parentId |-> url_parent_id]
            /\ result' = [op |-> "get_parent_id_from_context", value |-> r.value]
            /\ UNCHANGED <<config, pc>>

NextSession == GetParentIdFromContext

SpecSession == InitSession /\ [][NextSession]_vars

\* the calls of a session that carried a parentId that is not blank
CallsWithParentId(session_id) ==
    {i \in 1..Len(requests) :
        /\ requests[i].session_id = session_id
        /\ requests[i].parentId # None
        /\ strip(requests[i].parentId) # <<>>}

\* what the entry of a session is to be after the calls so far
ExpectedParentId(session_id) ==
    IF \A i \in 1..Len(requests) : requests[i].session_id # session_id
    THEN None
    ELSE IF CallsWithParentId(session_id) = {}
    THEN <<default_parent_id>>
    ELSE LET last == CHOOSE i \in CallsWithParentId(session_id) :
                        \A j \in CallsWithParentId(session_id) : j <= i
         IN  strip(requests[last].parentId)

\* C30: after any sequence of get_parent_id_from_context calls over any
\* sessions, the parent id returned for a call of session s is the entry
\* kept for s after the call, and it is the parentId, without the blanks
\* around it, of the most recent call of s that carried a parentId that is
\* not blank, or the configured default if s has had none; the entry of
\* every other session is what its own calls made it.
C30_SessionParentId ==
    requests # <<>> =>
        /\ result.value = store[locals.session_id]
        /\ \A s \in SessionIds : store[s] = ExpectedParentId(s)

\* s1 sets the id a, s2 sets the id b, and a later call of s1 without a
\* parentId still gets a
C30_Witness ==
    /\ Len(requests) = 3
    /\ requests[1] = [session_id |-> "s1", parentId |-> <<" ", "a">>]
    /\ requests[2] = [session_id |-> "s2", parentId |-> <<"b">>]
    /\ requests[3] = [session_id |-> "s1", parentId |-> None]
    /\ result.value = <<"a">>
    /\ store["s2"] = <<"b">>

====
